---- MODULE Spec2Model ----
(***************************************************************************)
(* Verification models of scripts of ncsa/neteng_utils:                    *)
(*   - bind_to_netbox_migration/update_managed_unmanaged_records.py        *)
(*     (specification SpecDns; its with_retries: SpecRetry)                *)
(*   - network_to_netbox/mac_sync.py                                       *)
(*     (sync_one: specification SpecMac; main and its pool: SpecPool)      *)
(*   - netbox_custom_scripts/find_prefixes.py   (specification SpecScan)   *)
(*   - netbox_custom_scripts/create_network_addresses.py (SpecAlloc)       *)
(*   - pull_network_devices/prod/vlan_sync.py   (specification SpecVlan)   *)
(* The models share no state; every specification leaves the variables of  *)
(* the other models at their idle values.                                  *)
(***************************************************************************)
EXTENDS Naturals, Integers, Sequences, FiniteSets, TLC

VARIABLES
  \* ---- update_managed_unmanaged_records.py ----
  forward,            \* parse_forward_records(): list of <<fqdn, rtype, ip>>
  reverse_map,        \* parse_reverse_ptrs(): ip -> set of PTR targets
  dry_run,            \* args.dry_run
  no_ptr_only,        \* args.no_ptr_only
  auto_create_no_ptr, \* args.auto_create_no_ptr
  records,            \* NetBox-DNS plugin records (remote state)
  pc,                 \* position of main()
  ip_i,               \* index of the current key of by_ip
  pair_i,             \* index of the current pair of by_ip[ip]
  chosen,             \* the PTR-locked FQDN of the current IP (NoName: None)
  needing,            \* candidates of the current no-PTR IP
  worklist,           \* the no-PTR worklist
  total_checked,
  filtered_exists_ok,
  filtered_no_zone,
  filtered_search_err,
  work_i,             \* position in the flattened worklist during the apply loop
  prompt,             \* what the prompt read: [kind, line]
  proceed,
  ipam_calls,         \* history: write calls issued to nb.ipam.ip_addresses
  dns_calls,          \* history: write calls issued to nb.plugins.netbox_dns.records
  ensure_applied,     \* history: triples ensure_plugin_record ran on in the main pass
  check_log,          \* history: <<fqdn, rtype, ip, status>> of every no-PTR check
  \* ---- mac_sync.py ----
  nb_ifaces,          \* fetch_nb_ifaces(): the device's interfaces [id, name, description]
  learned_norm,       \* learned_norm.get(key, set()) of each NetBox interface
  mac_objs,           \* NetBox MAC address objects [id, mac_address, iface]
  primary,            \* NetBox: interface id -> id of its primary MAC object (0: none)
  next_id,            \* the id NetBox gives the next created MAC object
  mpc,                \* position of sync_one
  iface_i,            \* index of the current interface of nb_ifaces_list
  summary,            \* sync_one's summary: [adds, removes, errors]
  mac_calls,          \* history: the write calls issued, per interface
  reconciled,         \* history: interfaces sync_interface_macs was called on
  clean,              \* history: interfaces whose sync_interface_macs saw no REST failure
  mac_objs0,          \* history: mac_objs when sync_one started
  primary0,           \* history: primary when sync_one started
  \* ---- find_prefixes.py ----
  container,          \* data["container"]: [version, first, plen, vrf]
  prefixes,           \* the other rows of the Prefix table: [version, first, plen, vrf]
  desired_len,        \* the parsed desired length
  limit,              \* data.get("limit") (0: None or 0)
  spc,                \* position of run() and of the loop of _scan_available
  occupied,           \* _child_ranges(): merged <<first, last>> ranges
  start,              \* _scan_available: start
  occ_i,              \* _scan_available: occ_i (counted from 1)
  results,            \* _scan_available: results, each [version, first, plen]
  \* ---- create_network_addresses.py ----
  pfx_table,          \* rows of the Prefix table: [version, first, plen, vrf, status, role]
  ips,                \* rows of the IPAddress table
  next_pk,            \* the pk the database gives the next created IPAddress
  apc,                \* position of run()
  run_no,             \* 1: first run of the script, 2: second run
  qs,                 \* the prefixes qs.iterator() yields, in order
  pfx_i,              \* index of the current prefix of qs
  ip_log,             \* history: saves, creations, tag additions and reports, per run
  \* ---- vlan_sync.py ----
  v_platform,         \* map_platform_to_netmiko(): "juniper" or "cisco_ios"
  v_ifname,           \* the name of the device's interface
  v_units,            \* Junos: the ethernet-switching statements of its units, in order
  v_block,            \* IOS/EOS: the fields of its switchport block
  nb_vids,            \* the VIDs of the VLANs NetBox holds (lookups.vid_to_id)
  nb_cur,             \* NetBox: [mode, untagged_vlan, tagged_vlans] of the interface
  nb_repr,            \* how the client hands out nb_cur: "plain" values or "record" objects
  v_dry_run,          \* args.dry_run
  vpc,                \* position of main()
  sw_map,             \* sw_map, as a list of <<ifname, desc>>
  sw_i,               \* index of the current entry of sw_map
  update_calls,       \* history: the desired dicts passed to iface_obj.update
  nb_cur0,            \* history: nb_cur when main() started
  total_changed,
  total_seen,
  \* ---- mac_sync.py, main() and its thread pool ----
  p_devices,          \* devices: for each eligible device, what it learned and NetBox holds
  p_main,             \* position of main()
  p_pc,               \* position of each device's sync_one
  p_submits,          \* history: how often sync_one was submitted for each device
  p_objs,             \* NetBox MAC address objects, shared by all threads
  p_primary,          \* NetBox: interface id -> id of its primary MAC object (0: none)
  p_next_id,          \* the id NetBox gives the next created MAC object
  p_local,            \* the locals of each sync_one / sync_interface_macs call
  p_summary,          \* the summary each sync_one returned
  summaries,          \* main(): the devices whose result as_completed has yielded
  p_total,            \* the logged TOTAL
  \* ---- update_managed_unmanaged_records.py, with_retries() ----
  attempts,           \* keyword argument attempts
  wait_s,             \* keyword argument wait_s
  r_pc,               \* position in with_retries
  r_i,                \* loop variable i
  last_exc,           \* local last_exc
  r_result,           \* the value with_retries returned
  r_raised,           \* the exception with_retries raised
  r_trace             \* history: the calls of fn and of time.sleep, in order

dnsVars == <<forward, reverse_map, dry_run, no_ptr_only, auto_create_no_ptr, records,
             pc, ip_i, pair_i, chosen, needing, worklist, total_checked,
             filtered_exists_ok, filtered_no_zone, filtered_search_err, work_i,
             prompt, proceed, ipam_calls, dns_calls, ensure_applied, check_log>>

macVars == <<nb_ifaces, learned_norm, mac_objs, primary, next_id, mpc, iface_i, summary,
             mac_calls, reconciled, clean, mac_objs0, primary0>>

scanVars == <<container, prefixes, desired_len, limit, spc, occupied, start, occ_i, results>>

allocVars == <<pfx_table, ips, next_pk, apc, run_no, qs, pfx_i, ip_log>>

vlanVars == <<v_platform, v_ifname, v_units, v_block, nb_vids, nb_cur, nb_repr, v_dry_run, vpc,
              sw_map, sw_i, update_calls, nb_cur0, total_changed, total_seen>>

poolVars == <<p_devices, p_main, p_pc, p_submits, p_objs, p_primary, p_next_id, p_local,
              p_summary, summaries, p_total>>

retryVars == <<attempts, wait_s, r_pc, r_i, last_exc, r_result, r_raised, r_trace>>

vars == <<dnsVars, macVars, scanVars, allocVars, vlanVars, poolVars, retryVars>>

(***************************************************************************)
(* Generic helpers                                                         *)
(***************************************************************************)
Range(s) == {s[i] : i \in 1..Len(s)}

\* All sequences over S of length at most n without a repeated element.
RECURSIVE InjSeqs(_, _)
InjSeqs(S, n) ==
  IF n = 0 THEN {<<>>}
  ELSE LET shorter == InjSeqs(S, n - 1)
       IN shorter \cup {Append(p[1], p[2]) :
                          p \in {q \in shorter \X S : Len(q[1]) = n - 1 /\ q[2] \notin Range(q[1])}}

\* All sequences over S of length at most n.
RECURSIVE SeqsUpTo(_, _)
SeqsUpTo(S, n) ==
  IF n = 0 THEN {<<>>}
  ELSE LET shorter == SeqsUpTo(S, n - 1)
       IN shorter \cup {Append(s, x) : s \in {t \in shorter : Len(t) = n - 1}, x \in S}

(***************************************************************************)
(* update_managed_unmanaged_records.py                                     *)
(***************************************************************************)
\* Names are sequences of labels (a.ex is <<"a", "ex">>); NoName is None / "".
NoName == <<>>
A_EX == <<"a", "ex">>
B_EX == <<"b", "ex">>
C_ORG == <<"c", "org">>
IP1 == "10.0.0.1"
IP2 == "2001:db8::2"
Ips == {IP1, IP2}

\* The forward A/AAAA records the zone files may hold.
ForwardUniverse == {<<A_EX, "A", IP1>>, <<B_EX, "A", IP1>>, <<C_ORG, "AAAA", IP2>>}
MaxFwd == 2

\* The zones of NetBox-DNS, as nb.plugins.netbox_dns.zones.all() yields them.
NbZones == << <<1, <<"ex">>>>, <<2, <<"b", "ex">>>> >>

\* len() of a dotted name.
RECURSIVE NameLen(_)
NameLen(name) ==
  IF name = <<>> THEN 0
  ELSE IF Len(name) = 1 THEN Len(name[1])
  ELSE Len(name[1]) + 1 + NameLen(Tail(name))

\* zones.sort(key=lambda x: len(x[1]), reverse=True): stable, longest name first.
RECURSIVE InsertZone(_, _)
InsertZone(sorted, z) ==
  IF sorted = <<>> THEN <<z>>
  ELSE IF NameLen(z[2]) > NameLen(Head(sorted)[2]) THEN <<z>> \o sorted
  ELSE <<Head(sorted)>> \o InsertZone(Tail(sorted), z)

RECURSIVE SortZones(_)
SortZones(zs) ==
  IF zs = <<>> THEN <<>>
  ELSE InsertZone(SortZones(SubSeq(zs, 1, Len(zs) - 1)), zs[Len(zs)])

load_dns_zones == SortZones(NbZones)

\* fq.endswith("." + zname) on label sequences.
IsProperSuffix(zname, fq) ==
  /\ Len(zname) < Len(fq)
  /\ SubSeq(fq, Len(fq) - Len(zname) + 1, Len(fq)) = zname

NoZone == [zid |-> 0, rel |-> NoName]

\* choose_zone_for_fqdn: the first zone of the sorted list that is, or ends, the FQDN.
RECURSIVE choose_zone_for_fqdn(_, _)
choose_zone_for_fqdn(fqdn, zones) ==
  IF zones = <<>> THEN NoZone
  ELSE LET zid == Head(zones)[1]
           zname == Head(zones)[2]
       IN IF fqdn = zname THEN [zid |-> zid, rel |-> <<"@">>]
          ELSE IF IsProperSuffix(zname, fqdn)
               THEN [zid |-> zid, rel |-> SubSeq(fqdn, 1, Len(fqdn) - Len(zname))]
          ELSE choose_zone_for_fqdn(fqdn, Tail(zones))

\* nb.plugins.netbox_dns.records.filter(zone_id, type, name, value)
FilterRecords(recs, zid, rtype, rel, value) ==
  {r \in recs : r.zone = zid /\ r.type = rtype /\ r.name = rel /\ r.value = value}

\* plugin_check_status; err: the filter call raised.
plugin_check_status(recs, zones, fqdn, rtype, ip_value, err) ==
  LET z == choose_zone_for_fqdn(fqdn, zones)
      existing == FilterRecords(recs, z.zid, rtype, z.rel, ip_value)
  IN IF z.zid = 0 THEN "no_zone"
     ELSE IF err THEN "search_error"
     ELSE IF existing = {} THEN "needs_create"
     ELSE IF \E rec \in existing : ~rec.disable_ptr THEN "needs_update"
     ELSE "exists_ok"

\* build_ip_candidates: the keys of by_ip in insertion order, and by_ip[ip].
RECURSIVE ByIpKeys(_)
ByIpKeys(fwd) ==
  IF fwd = <<>> THEN <<>>
  ELSE LET rest == ByIpKeys(SubSeq(fwd, 1, Len(fwd) - 1))
           ip == fwd[Len(fwd)][3]
       IN IF ip \in Range(rest) THEN rest ELSE Append(rest, ip)

RECURSIVE PairsOf(_, _)
PairsOf(fwd, ip) ==
  IF fwd = <<>> THEN <<>>
  ELSE IF Head(fwd)[3] = ip
       THEN <<<<Head(fwd)[1], Head(fwd)[2]>>>> \o PairsOf(Tail(fwd), ip)
       ELSE PairsOf(Tail(fwd), ip)

by_ip_keys == ByIpKeys(forward)
cur_ip == by_ip_keys[ip_i]
cur_pairs == PairsOf(forward, cur_ip)

\* reverse_map.get(ip, set())
PtrTargets(ip) == reverse_map[ip]

\* next((fq for (fq, _rt) in pairs if fq in ptr_targets), None)
FirstLockedMutant(pairs, ptr_targets) ==
  IF pairs = <<>> THEN NoName ELSE Head(pairs)[1]

RECURSIVE FirstLocked(_, _)
FirstLocked(pairs, ptr_targets) ==
  IF pairs = <<>> THEN NoName
  ELSE IF Head(pairs)[1] \in ptr_targets THEN Head(pairs)[1]
  ELSE FirstLocked(Tail(pairs), ptr_targets)

\* str.lower() and str.strip() on the characters a typed answer is made of.
AnswerChars == {"y", "Y", "n", " "}
MaxAnswerLen == 2
LowerChar(c) == IF c = "Y" THEN "y" ELSE c
Lower(s) == [i \in 1..Len(s) |-> LowerChar(s[i])]
RECURSIVE LStrip(_)
LStrip(s) == IF s # <<>> /\ Head(s) = " " THEN LStrip(Tail(s)) ELSE s
RECURSIVE RStrip(_)
RStrip(s) == IF s # <<>> /\ s[Len(s)] = " " THEN RStrip(SubSeq(s, 1, Len(s) - 1)) ELSE s
Strip(s) == RStrip(LStrip(s))

\* ans = input(...).strip().lower(); proceed = ans == "y"
AnswerIsYesMutant(line) == TRUE
AnswerIsYes(line) == Lower(Strip(line)) = <<"y">>

NoPrompt == [kind |-> "none", line |-> <<>>]
PromptInputs ==
  {[kind |-> "notty", line |-> <<>>], [kind |-> "eof", line |-> <<>>]}
    \cup {[kind |-> "line", line |-> l] : l \in SeqsUpTo(AnswerChars, MaxAnswerLen)}

\* The record a create call adds, and the outcome of the update / create calls.
NewRecord(zid, rtype, rel, value) ==
  [zone |-> zid, type |-> rtype, name |-> rel, value |-> value, disable_ptr |-> TRUE]

\* The NetBox-DNS records NetBox may hold at the start: at most one per key, for the
\* keys the forward universe can ask for.
RecordKeys == {<<1, "A", <<"a">>, IP1>>, <<2, "A", <<"@">>, IP1>>}
RecordStates ==
  {rs \in SUBSET {[zone |-> k[1], type |-> k[2], name |-> k[3], value |-> k[4],
                   disable_ptr |-> d] : k \in RecordKeys, d \in BOOLEAN} :
     \A r1, r2 \in rs :
       (r1.zone = r2.zone /\ r1.name = r2.name /\ r1.value = r2.value) => r1 = r2}

\* What nb.ipam.ip_addresses.get(address=ip) and PrefixIndex.best_prefix(ip) give.
IpamLookups ==
  {[found |-> "error", dns_name |-> NoName, prefix |-> FALSE]}
    \cup {[found |-> "none", dns_name |-> NoName, prefix |-> p] : p \in BOOLEAN}
    \cup {[found |-> "yes", dns_name |-> n, prefix |-> TRUE] : n \in {NoName, A_EX, B_EX}}

InitDns ==
  /\ forward \in InjSeqs(ForwardUniverse, MaxFwd)
  /\ reverse_map \in {[ip \in Ips |-> IF ip = IP1 THEN t1 ELSE t2] :
                        t1 \in SUBSET {A_EX, B_EX}, t2 \in {{}, {A_EX}}}
  /\ dry_run \in BOOLEAN
  /\ no_ptr_only \in BOOLEAN
  /\ auto_create_no_ptr \in BOOLEAN
  /\ records \in RecordStates
  /\ pc = "start"
  /\ ip_i = 1
  /\ pair_i = 1
  /\ chosen = NoName
  /\ needing = <<>>
  /\ worklist = <<>>
  /\ total_checked = 0
  /\ filtered_exists_ok = 0
  /\ filtered_no_zone = 0
  /\ filtered_search_err = 0
  /\ work_i = 1
  /\ prompt = NoPrompt
  /\ proceed = FALSE
  /\ ipam_calls = {}
  /\ dns_calls = {}
  /\ ensure_applied = {}
  /\ check_log = <<>>

\* dry_run=args.dry_run as main() passes it to create_or_update_ip and ensure_plugin_record.
IpamDryRun == dry_run
EnsureDryRunMutant == FALSE
EnsureDryRun == dry_run

\* create_or_update_ip(ip, fqdn, prefix_index, dry_run): the write call it issues, if any.
create_or_update_ip(ip, fqdn) ==
  \E existing \in IpamLookups :
    ipam_calls' =
      IF existing.found = "error" THEN ipam_calls
      ELSE IF existing.found = "yes"
           THEN IF existing.dns_name = fqdn \/ IpamDryRun THEN ipam_calls
                ELSE ipam_calls \cup {[op |-> "update", ip |-> ip, dns_name |-> fqdn]}
      ELSE IF ~existing.prefix \/ IpamDryRun THEN ipam_calls
      ELSE ipam_calls \cup {[op |-> "create", ip |-> ip, dns_name |-> fqdn]}

DnsCall(op, fqdn, rtype, ip_value) ==
  [op |-> op, fqdn |-> fqdn, rtype |-> rtype, ip |-> ip_value, at |-> pc]

\* ensure_plugin_record(zones, fqdn, rtype, ip_value, dry_run). err1, err2: the two
\* filter calls raised; ok: the update / create call succeeded (with_retries did not
\* run out of attempts).
ensure_plugin_record(fqdn, rtype, ip_value) ==
  \E err1 \in BOOLEAN, err2 \in BOOLEAN, ok \in BOOLEAN :
    LET status == plugin_check_status(records, load_dns_zones, fqdn, rtype, ip_value, err1)
        z == choose_zone_for_fqdn(fqdn, load_dns_zones)
        recs == FilterRecords(records, z.zid, rtype, z.rel, ip_value)
        stale == {r \in recs : ~r.disable_ptr}
    IN IF status \in {"no_zone", "search_error", "exists_ok"}
       THEN UNCHANGED <<records, dns_calls>>
       ELSE IF status = "needs_update"
       THEN IF EnsureDryRun \/ err2 \/ stale = {}
            THEN UNCHANGED <<records, dns_calls>>
            ELSE IF ok
            THEN /\ records' = (records \ stale) \cup {[r EXCEPT !.disable_ptr = TRUE] : r \in stale}
                 /\ dns_calls' = dns_calls \cup {DnsCall("update", fqdn, rtype, ip_value)}
            ELSE \E failed \in stale : \E done \in SUBSET (stale \ {failed}) :
                 /\ records' = (records \ done) \cup {[r EXCEPT !.disable_ptr = TRUE] : r \in done}
                 /\ dns_calls' = dns_calls \cup {DnsCall("update", fqdn, rtype, ip_value)}
       ELSE IF EnsureDryRun
            THEN UNCHANGED <<records, dns_calls>>
            ELSE /\ records' = IF ok THEN records \cup {NewRecord(z.zid, rtype, z.rel, ip_value)}
                                ELSE records
                 /\ dns_calls' = dns_calls \cup {DnsCall("create", fqdn, rtype, ip_value)}

\* The statuses the worklist loops drop (the three `continue` branches).
IsFilteredMutant(status) == status \in {"no_zone", "search_error"}
IsFiltered(status) == status \in {"exists_ok", "no_zone", "search_error"}

\* The body of the loop over the pairs of a no-PTR IP (the same code in both passes).
NoPtrCheck(fqdn, rtype, ip) ==
  \E err \in BOOLEAN :
    LET status == plugin_check_status(records, load_dns_zones, fqdn, rtype, ip, err)
    IN /\ total_checked' = total_checked + 1
       /\ check_log' = Append(check_log, <<fqdn, rtype, ip, status>>)
       /\ filtered_exists_ok' = filtered_exists_ok + (IF status = "exists_ok" THEN 1 ELSE 0)
       /\ filtered_no_zone' = filtered_no_zone + (IF status = "no_zone" THEN 1 ELSE 0)
       /\ filtered_search_err' = filtered_search_err + (IF status = "search_error" THEN 1 ELSE 0)
       /\ needing' = IF IsFiltered(status) THEN needing
                     ELSE Append(needing, <<fqdn, rtype, status>>)

\* if needing: worklist.append({"ip": ip, "candidates": needing})
CloseNoPtrIp ==
  /\ worklist' = IF needing # <<>>
                  THEN Append(worklist, [ip |-> cur_ip, candidates |-> needing])
                  ELSE worklist
  /\ needing' = <<>>
  /\ ip_i' = ip_i + 1
  /\ pair_i' = 1

\* What no step of main() changes: its inputs, and the state of the other scripts.
inputVars == <<forward, reverse_map, dry_run, no_ptr_only, auto_create_no_ptr, macVars,
               scanVars, allocVars, vlanVars, poolVars,
   retryVars>>
counterVars == <<total_checked, filtered_exists_ok, filtered_no_zone, filtered_search_err>>

Start ==
  /\ pc = "start"
  /\ pc' = IF no_ptr_only THEN "no_ptr_only" ELSE "main"
  /\ UNCHANGED <<inputVars, counterVars, records, ip_i, pair_i, chosen, needing, worklist,
                 work_i, prompt, proceed, ipam_calls, dns_calls, ensure_applied, check_log>>

MainCheckNoPtrPair ==
  /\ pc = "main" /\ ip_i <= Len(by_ip_keys)
  /\ PtrTargets(cur_ip) = {}
  /\ pair_i <= Len(cur_pairs)
  /\ NoPtrCheck(cur_pairs[pair_i][1], cur_pairs[pair_i][2], cur_ip)
  /\ pair_i' = pair_i + 1
  /\ UNCHANGED <<inputVars, records, pc, ip_i, chosen, worklist, work_i, prompt, proceed,
                 ipam_calls, dns_calls, ensure_applied>>

MainCloseNoPtrIp ==
  /\ pc = "main" /\ ip_i <= Len(by_ip_keys)
  /\ PtrTargets(cur_ip) = {}
  /\ pair_i > Len(cur_pairs)
  /\ CloseNoPtrIp
  /\ UNCHANGED <<inputVars, counterVars, records, pc, chosen, work_i, prompt, proceed,
                 ipam_calls, dns_calls, ensure_applied, check_log>>

\* PTR-locked IPAM dns_name: chosen = next(...); if chosen: create_or_update_ip(...)
MainLockIp ==
  /\ pc = "main" /\ ip_i <= Len(by_ip_keys)
  /\ PtrTargets(cur_ip) # {}
  /\ chosen' = FirstLocked(cur_pairs, PtrTargets(cur_ip))
  /\ IF chosen' # NoName THEN create_or_update_ip(cur_ip, chosen')
                          ELSE UNCHANGED ipam_calls
  /\ pc' = "mismatch"
  /\ pair_i' = 1
  /\ UNCHANGED <<inputVars, counterVars, records, ip_i, needing, worklist, work_i, prompt,
                 proceed, dns_calls, ensure_applied, check_log>>

\* for fqdn, rtype in pairs: if fqdn == chosen: continue; ensure_plugin_record(...)
MainEnsurePair ==
  /\ pc = "mismatch"
  /\ pair_i <= Len(cur_pairs)
  /\ LET fqdn == cur_pairs[pair_i][1]
         rtype == cur_pairs[pair_i][2]
     IN IF fqdn = chosen
        THEN UNCHANGED <<records, dns_calls, ensure_applied>>
        ELSE /\ ensure_plugin_record(fqdn, rtype, cur_ip)
             /\ ensure_applied' = ensure_applied \cup {<<fqdn, rtype, cur_ip>>}
  /\ pair_i' = pair_i + 1
  /\ UNCHANGED <<inputVars, counterVars, pc, ip_i, chosen, needing, worklist, work_i, prompt,
                 proceed, ipam_calls, check_log>>

MainCloseIp ==
  /\ pc = "mismatch"
  /\ pair_i > Len(cur_pairs)
  /\ pc' = "main"
  /\ ip_i' = ip_i + 1
  /\ pair_i' = 1
  /\ chosen' = NoName
  /\ UNCHANGED <<inputVars, counterVars, records, needing, worklist, work_i, prompt, proceed,
                 ipam_calls, dns_calls, ensure_applied, check_log>>

\* --no-ptr-only: if ip in reverse_map and reverse_map[ip]: continue
OnlySkipPtrIp ==
  /\ pc = "no_ptr_only" /\ ip_i <= Len(by_ip_keys)
  /\ PtrTargets(cur_ip) # {}
  /\ ip_i' = ip_i + 1
  /\ UNCHANGED <<inputVars, counterVars, records, pc, pair_i, chosen, needing, worklist, work_i,
                 prompt, proceed, ipam_calls, dns_calls, ensure_applied, check_log>>

OnlyCheckPair ==
  /\ pc = "no_ptr_only" /\ ip_i <= Len(by_ip_keys)
  /\ PtrTargets(cur_ip) = {}
  /\ pair_i <= Len(cur_pairs)
  /\ NoPtrCheck(cur_pairs[pair_i][1], cur_pairs[pair_i][2], cur_ip)
  /\ pair_i' = pair_i + 1
  /\ UNCHANGED <<inputVars, records, pc, ip_i, chosen, worklist, work_i, prompt, proceed,
                 ipam_calls, dns_calls, ensure_applied>>

OnlyCloseIp ==
  /\ pc = "no_ptr_only" /\ ip_i <= Len(by_ip_keys)
  /\ PtrTargets(cur_ip) = {}
  /\ pair_i > Len(cur_pairs)
  /\ CloseNoPtrIp
  /\ UNCHANGED <<inputVars, counterVars, records, pc, chosen, work_i, prompt, proceed,
                 ipam_calls, dns_calls, ensure_applied, check_log>>

\* Both loops are over; the summary is printed.
Summary ==
  /\ pc \in {"main", "no_ptr_only"} /\ ip_i > Len(by_ip_keys)
  /\ pc' = IF worklist # <<>> THEN "prompt" ELSE "done"
  /\ UNCHANGED <<inputVars, counterVars, records, ip_i, pair_i, chosen, needing, worklist,
                 work_i, prompt, proceed, ipam_calls, dns_calls, ensure_applied, check_log>>

\* The worklist is printed, then proceed is decided.
Prompt ==
  /\ pc = "prompt"
  /\ IF auto_create_no_ptr
     THEN /\ proceed' = TRUE
          /\ UNCHANGED prompt
     ELSE \E in \in PromptInputs :
          /\ prompt' = in
          /\ proceed' = (in.kind = "line" /\ AnswerIsYes(in.line))
  /\ pc' = IF proceed' THEN "apply" ELSE "done"
  /\ UNCHANGED <<inputVars, counterVars, records, ip_i, pair_i, chosen, needing, worklist,
                 work_i, ipam_calls, dns_calls, ensure_applied, check_log>>

\* The candidates of the worklist in the order the apply loop visits them.
RECURSIVE Flatten(_)
Flatten(wl) ==
  IF wl = <<>> THEN <<>>
  ELSE [i \in 1..Len(Head(wl).candidates) |->
          <<Head(wl).candidates[i][1], Head(wl).candidates[i][2], Head(wl).ip,
            Head(wl).candidates[i][3]>>] \o Flatten(Tail(wl))

ApplyCandidate ==
  /\ pc = "apply"
  /\ work_i <= Len(Flatten(worklist))
  /\ LET c == Flatten(worklist)[work_i]
     IN ensure_plugin_record(c[1], c[2], c[3])
  /\ work_i' = work_i + 1
  /\ UNCHANGED <<inputVars, counterVars, pc, ip_i, pair_i, chosen, needing, worklist, prompt,
                 proceed, ipam_calls, ensure_applied, check_log>>

ApplyDone ==
  /\ pc = "apply"
  /\ work_i > Len(Flatten(worklist))
  /\ pc' = "done"
  /\ UNCHANGED <<inputVars, counterVars, records, ip_i, pair_i, chosen, needing, worklist,
                 work_i, prompt, proceed, ipam_calls, dns_calls, ensure_applied, check_log>>

NextDns ==
  \/ Start
  \/ MainCheckNoPtrPair
  \/ MainCloseNoPtrIp
  \/ MainLockIp
  \/ MainEnsurePair
  \/ MainCloseIp
  \/ OnlySkipPtrIp
  \/ OnlyCheckPair
  \/ OnlyCloseIp
  \/ Summary
  \/ Prompt
  \/ ApplyCandidate
  \/ ApplyDone


(***************************************************************************)
(* mac_sync.py                                                             *)
(***************************************************************************)
\* Interface names and descriptions are sequences of characters.
IGNORE_INTERFACE_PREFIXES ==
  {<<"i", "r", "b">>, <<"v", "l", "a", "n">>, <<"l", "o">>, <<"m", "g", "m", "t">>,
   <<"l", "o", "o", "p", "b", "a", "c", "k">>}
IGNORE_DESC_WILDCARDS == {<<"[", "U", "P", "]", "*">>, <<"[", "S", "W", "]", "*">>}

\* str.lower() on the characters the modelled names and descriptions use.
LowerOf(c) ==
  CASE c = "E" -> "e" [] c = "L" -> "l" [] c = "U" -> "u" [] c = "P" -> "p"
    [] c = "S" -> "s" [] c = "W" -> "w" [] OTHER -> c
LowerStr(str) == [i \in 1..Len(str) |-> LowerOf(str[i])]

StartsWith(str, pfx) == Len(pfx) <= Len(str) /\ SubSeq(str, 1, Len(pfx)) = pfx

\* should_skip_name
should_skip_name(name) ==
  \E pfx \in IGNORE_INTERFACE_PREFIXES : StartsWith(LowerStr(name), pfx)

\* _wildcard_to_regex: * becomes ".*", ? becomes ".", every other character is literal.
_wildcard_to_regex(pattern) ==
  [i \in 1..Len(pattern) |->
     IF pattern[i] = "*" THEN [kind |-> "star", c |-> ""]
     ELSE IF pattern[i] = "?" THEN [kind |-> "any", c |-> ""]
     ELSE [kind |-> "lit", c |-> pattern[i]]]

\* The regex rx matches the whole of str (re.IGNORECASE).
RECURSIVE RegexMatch(_, _)
RegexMatch(rx, str) ==
  IF rx = <<>> THEN str = <<>>
  ELSE IF Head(rx).kind = "star"
       THEN RegexMatch(Tail(rx), str) \/ (str # <<>> /\ RegexMatch(rx, Tail(str)))
  ELSE IF Head(rx).kind = "any"
       THEN str # <<>> /\ RegexMatch(Tail(rx), Tail(str))
  ELSE /\ str # <<>>
       /\ LowerOf(Head(str)) = LowerOf(Head(rx).c)
       /\ RegexMatch(Tail(rx), Tail(str))

\* re.fullmatch(rx, str, re.IGNORECASE).
ReFullMatch(rx, str) == RegexMatch(rx, str)

\* re.search(rx, str, re.IGNORECASE): some substring of str matches rx.
ReSearch(rx, str) ==
  \E i \in 1..(Len(str) + 1) : \E j \in (i - 1)..Len(str) : RegexMatch(rx, SubSeq(str, i, j))

\* has_ignored_desc
has_ignored_desc(desc) ==
  \E pat \in IGNORE_DESC_WILDCARDS : ReSearch(_wildcard_to_regex(pat), desc)

\* The interfaces a device may have in NetBox.
ET1 == <<"E", "t", "1">>
ET2 == <<"E", "t", "2">>
LO0 == <<"l", "o", "0">>
UC_LO0 == <<"L", "o", "0">>
DESC_NONE == <<>>
DESC_UP == <<"[", "U", "P", "]">>
DESC_UP_LOWER == <<"[", "u", "p", "]", "_", "x">>
DESC_UP_INSIDE == <<"x", "[", "U", "P", "]">>
DESC_NO_BRACKETS == <<"U", "P">>
DESC_SW == <<"[", "S", "W", "]", "x">>
IfaceCatalogue ==
  {<<ET1, d>> : d \in {DESC_NONE, DESC_UP, DESC_UP_LOWER, DESC_UP_INSIDE, DESC_NO_BRACKETS,
                       DESC_SW}}
    \cup {<<LO0, DESC_NONE>>, <<UC_LO0, DESC_NONE>>}

IfaceIds == {1, 2}
MacList == <<"AA:00:00:00:00:01", "AA:00:00:00:00:02">>
Macs == Range(MacList)
MaxMacObjs == 2
NoMac == ""

\* The MAC objects NetBox may hold when sync_one starts: ids 1..n, each on an interface.
MacObjStates ==
  UNION {{{[id |-> i, mac_address |-> f[i][1], iface |-> f[i][2]] : i \in 1..n} :
            f \in [1..n -> Macs \X IfaceIds]} : n \in 0..MaxMacObjs}

\* rest_list_interface_macs
ListUnfiltered(objs, iface_id) == objs
rest_list_interface_macs(objs, iface_id) == {o \in objs : o.iface = iface_id}

\* compute_changes
ToAddMutant(desired, existing_objs) == desired
ToAdd(desired, existing_objs) == desired \ {o.mac_address : o \in existing_objs}
ToRemove(desired, existing_objs) == {o \in existing_objs : o.mac_address \notin desired}

\* The MAC address of the interface's primary MAC object (NoMac: none).
MacOfPrimary(objs, prim, iface_id) ==
  IF \E o \in objs : o.id = prim[iface_id]
  THEN (CHOOSE o \in objs : o.id = prim[iface_id]).mac_address
  ELSE NoMac

\* final_map.get(mac): the id of the object with that address listed last (0: None).
FinalMapGet(final_objs, mac) ==
  LET ids == {o.id : o \in {x \in final_objs : x.mac_address = mac}}
  IN IF ids = {} THEN 0 ELSE CHOOSE i \in ids : \A k \in ids : k <= i

\* sorted(to_add): the MAC strings in ascending order.
SortedMacs(S) == SelectSeq(MacList, LAMBDA m : m \in S)

\* The REST faults one call of sync_interface_macs may meet (at most one per call).
NoFault == [kind |-> "none", id |-> 0, mac |-> NoMac]
Faults(to_add, to_remove) ==
  {NoFault}
    \cup {[kind |-> k, id |-> 0, mac |-> NoMac] : k \in {"list", "refresh", "clear", "set"}}
    \cup {[kind |-> "delete", id |-> o.id, mac |-> NoMac] : o \in to_remove}
    \cup {[kind |-> "create", id |-> 0, mac |-> m] : m \in to_add}

InitMac ==
  /\ nb_ifaces \in {<< [id |-> 1, name |-> c[1], description |-> c[2]],
                       [id |-> 2, name |-> ET2, description |-> DESC_NONE] >> :
                      c \in IfaceCatalogue}
  /\ learned_norm \in {[i \in IfaceIds |-> IF i = 1 THEN d ELSE {}] : d \in SUBSET Macs}
  /\ mac_objs \in MacObjStates
  /\ primary \in {pr \in [IfaceIds -> 0..MaxMacObjs] :
                    \A i \in IfaceIds :
                      pr[i] # 0 => \E o \in mac_objs : o.id = pr[i] /\ o.iface = i}
  /\ next_id = MaxMacObjs + 1
  /\ mpc = "gather"
  /\ iface_i = 1
  /\ summary = [adds |-> 0, removes |-> 0, errors |-> 0]
  /\ mac_calls = {}
  /\ reconciled = {}
  /\ clean = {}
  /\ mac_objs0 = mac_objs
  /\ primary0 = primary

cur_iface == nb_ifaces[iface_i]

\* What no step of sync_one changes: its inputs, the history of the start state, and
\* the state of the other scripts.
macFrame == <<nb_ifaces, learned_norm, mac_objs0, primary0, dnsVars, scanVars, allocVars,
              vlanVars, poolVars,
   retryVars>>

\* sync_one up to the interface loop: management IP, platform, SSH gathering.
Gather ==
  /\ mpc = "gather"
  /\ \E outcome \in {"ok", "no_ip", "unsupported", "ssh_failed"} :
       /\ mpc' = IF outcome = "ok" THEN "loop" ELSE "done"
       /\ summary' = IF outcome \in {"no_ip", "ssh_failed"}
                     THEN [summary EXCEPT !.errors = @ + 1]
                     ELSE summary
  /\ UNCHANGED <<macFrame, mac_objs, primary, next_id, iface_i, mac_calls, reconciled, clean>>

\* if should_skip_name(nb_iface.name): continue / if has_ignored_desc(nb_iface): continue
SkipInterface ==
  /\ mpc = "loop" /\ iface_i <= Len(nb_ifaces)
  /\ should_skip_name(cur_iface.name) \/ has_ignored_desc(cur_iface.description)
  /\ iface_i' = iface_i + 1
  /\ UNCHANGED <<macFrame, mac_objs, primary, next_id, mpc, summary, mac_calls, reconciled, clean>>

MacCall(op, iface_id, id, mac) == [op |-> op, iface |-> iface_id, id |-> id, mac |-> mac]

\* sync_interface_macs(nb_iface, desired) as sync_one calls it, with the REST fault
\* (if any) the call meets.
sync_interface_macs(iface_id, desired, fault) ==
  LET existing == rest_list_interface_macs(mac_objs, iface_id)
      to_add == ToAdd(desired, existing)
      to_remove == ToRemove(desired, existing)
      deleted == {o \in to_remove : ~(fault.kind = "delete" /\ fault.id = o.id)}
      to_create == SelectSeq(SortedMacs(to_add),
                             LAMBDA m : ~(fault.kind = "create" /\ fault.mac = m))
      created == {[id |-> next_id + k - 1, mac_address |-> to_create[k], iface |-> iface_id] :
                    k \in 1..Len(to_create)}
      objs_after == (mac_objs \ deleted) \cup created
      final_objs == rest_list_interface_macs(objs_after, iface_id)
      current_primary == MacOfPrimary(mac_objs, primary, iface_id)
      after_delete == IF primary[iface_id] \in {o.id : o \in deleted} THEN 0
                      ELSE primary[iface_id]
      do_clear == current_primary # NoMac /\ current_primary \notin desired
      only_mac == CHOOSE m \in desired : TRUE
      only_id == FinalMapGet(final_objs, only_mac)
      do_set == current_primary = NoMac /\ Cardinality(desired) = 1 /\ only_id # 0
      after_clear == IF do_clear /\ fault.kind # "clear" THEN 0 ELSE after_delete
      after_set == IF do_set /\ fault.kind # "set" THEN only_id ELSE after_clear
      writes == {MacCall("delete", iface_id, o.id, o.mac_address) : o \in to_remove}
                  \cup {MacCall("create", iface_id, 0, m) : m \in to_add}
      patches == (IF do_clear THEN {MacCall("patch", iface_id, 0, NoMac)} ELSE {})
                   \cup (IF do_set THEN {MacCall("patch", iface_id, only_id, only_mac)} ELSE {})
  IN IF fault.kind = "list"
     THEN /\ summary' = [summary EXCEPT !.errors = @ + 1]
          /\ UNCHANGED <<mac_objs, primary, next_id, mac_calls, clean>>
     ELSE /\ mac_objs' = objs_after
          /\ next_id' = next_id + Len(to_create)
          /\ mac_calls' = mac_calls \cup writes
                            \cup (IF fault.kind = "refresh" THEN {} ELSE patches)
          /\ primary' = [primary EXCEPT ![iface_id] =
                           IF fault.kind = "refresh" THEN after_delete ELSE after_set]
          /\ clean' = IF fault = NoFault THEN clean \cup {iface_id} ELSE clean
          /\ summary' = IF fault.kind = "refresh"
                        THEN [summary EXCEPT !.errors = @ + 1]
                        ELSE [summary EXCEPT !.adds = @ + Len(to_create),
                                             !.removes = @ + Cardinality(deleted)]

\* The loop body for an interface that is not skipped.
ReconcileInterface ==
  /\ mpc = "loop" /\ iface_i <= Len(nb_ifaces)
  /\ ~should_skip_name(cur_iface.name)
  /\ ~has_ignored_desc(cur_iface.description)
  /\ LET desired == learned_norm[cur_iface.id]
         existing == rest_list_interface_macs(mac_objs, cur_iface.id)
     IN \E fault \in Faults(ToAdd(desired, existing), ToRemove(desired, existing)) :
          sync_interface_macs(cur_iface.id, desired, fault)
  /\ reconciled' = reconciled \cup {cur_iface.id}
  /\ iface_i' = iface_i + 1
  /\ UNCHANGED <<macFrame, mpc>>

\* The loop is over: summary["adds"] and summary["removes"] are set and returned.
FinishDevice ==
  /\ mpc = "loop" /\ iface_i > Len(nb_ifaces)
  /\ mpc' = "done"
  /\ UNCHANGED <<macFrame, mac_objs, primary, next_id, iface_i, summary, mac_calls, reconciled,
                 clean>>

NextMac ==
  \/ Gather
  \/ SkipInterface
  \/ ReconcileInterface
  \/ FinishDevice

(***************************************************************************)
(* find_prefixes.py                                                        *)
(***************************************************************************)
\* Address widths. The model scales the 32 and 128 bits of the two IP families
\* down to V4Bits and V6Bits; what the code depends on is kept: the IPv6 space is
\* wider than the IPv4 space and starts at the same integer 0.
V4Bits == 2
V6Bits == 3
MaxBits(version) == IF version = 4 THEN V4Bits ELSE V6Bits

\* _block_size
_block_size(version, prefixlen) == 2 ^ (MaxBits(version) - prefixlen)

\* _round_up
_round_up(x, step) == ((x + step - 1) \div step) * step

\* _to_range: <<int(net.first), int(net.last)>>
_to_range(net) == <<net.first, net.first + _block_size(net.version, net.plen) - 1>>

\* netaddr's IPAddress(int), no version given: an integer that fits the IPv4 width
\* is an IPv4 address, a larger one an IPv6 address.
IPAddressVersion(n) == IF n <= 2 ^ V4Bits - 1 THEN 4 ELSE 6

\* f"{IPAddress(start)}/{desired_len}"
CidrOf(n, len) == [version |-> IPAddressVersion(n), first |-> n, plen |-> len]

\* The CIDR blocks of a family, as [version, first, plen].
Networks(version) ==
  UNION {{[version |-> version, first |-> k * _block_size(version, l), plen |-> l] :
            k \in 0..(2 ^ l - 1)} : l \in 0..MaxBits(version)}

GLOBAL_VRF == 0
OTHER_VRF == 1
InVrf(net, vrf) == [version |-> net.version, first |-> net.first, plen |-> net.plen, vrf |-> vrf]

\* The containers a user may pick, all in the Global VRF, and the rows the Prefix
\* table may hold beside the container: every block of the Global VRF and two
\* blocks of another VRF.
Containers ==
  {InVrf(n, GLOBAL_VRF) : n \in {m \in Networks(4) \cup Networks(6) : m.plen < MaxBits(m.version)}}
PrefixUniverse ==
  {InVrf(n, GLOBAL_VRF) : n \in Networks(4) \cup Networks(6)}
    \cup {InVrf([version |-> 4, first |-> 0, plen |-> 1], OTHER_VRF),
          InVrf([version |-> 6, first |-> 0, plen |-> 2], OTHER_VRF)}

MaxChildren == 2
MaxLimit == 2

\* The subsets of S with at most n elements.
RECURSIVE SubsetsUpTo(_, _)
SubsetsUpTo(S, n) ==
  IF n = 0 THEN {{}}
  ELSE LET smaller == SubsetsUpTo(S, n - 1)
       IN smaller \cup {p[1] \cup {p[2]} : p \in smaller \X S}

\* Tuple order of ranges.sort().
RangeLess(a, b) == a[1] < b[1] \/ (a[1] = b[1] /\ a[2] < b[2])
RECURSIVE SortRanges(_)
SortRanges(S) ==
  IF S = {} THEN <<>>
  ELSE LET least == CHOOSE a \in S : \A b \in S \ {a} : RangeLess(a, b)
       IN <<least>> \o SortRanges(S \ {least})

Max(a, b) == IF a >= b THEN a ELSE b

\* The merge loop of _child_ranges.
RECURSIVE MergeRanges(_, _)
MergeRanges(ranges, merged) ==
  IF ranges = <<>> THEN merged
  ELSE LET r == Head(ranges)
           n == Len(merged)
       IN IF n = 0 \/ r[1] > merged[n][2] + 1
          THEN MergeRanges(Tail(ranges), Append(merged, r))
          ELSE MergeRanges(Tail(ranges),
                           [merged EXCEPT ![n] = <<merged[n][1], Max(merged[n][2], r[2])>>])

\* _child_ranges
_child_ranges(container_net, rows) ==
  LET c == _to_range(container_net)
      kept == {_to_range(p) :
                 p \in {q \in rows : /\ q.vrf = container_net.vrf
                                     /\ q.version = container_net.version
                                     /\ _to_range(q)[1] >= c[1]
                                     /\ _to_range(q)[2] <= c[2]}}
  IN MergeRanges(SortRanges(kept), <<>>)

InitScan ==
  /\ container \in Containers
  /\ prefixes \in SubsetsUpTo(PrefixUniverse, MaxChildren)
  /\ desired_len \in 0..(V6Bits + 1)
  /\ limit \in 0..MaxLimit
  /\ spc = "run"
  /\ occupied = <<>>
  /\ start = 0
  /\ occ_i = 1
  /\ results = <<>>

\* What no step of the script changes: its inputs, and the state of the other scripts.
scanFrame == <<container, prefixes, desired_len, limit, dnsVars, macVars, allocVars,
               vlanVars, poolVars,
   retryVars>>

block == _block_size(container.version, desired_len)
c_last == _to_range(container)[2]

\* run() up to the loop of _scan_available: validation of the desired length,
\* _child_ranges, and the alignment of start.
RunScript ==
  /\ spc = "run"
  /\ IF desired_len < container.plen \/ desired_len > MaxBits(container.version)
     THEN /\ spc' = "failed"
          /\ UNCHANGED <<occupied, start>>
     ELSE /\ spc' = "scan"
          /\ occupied' = _child_ranges(container, prefixes)
          /\ start' = _round_up(_to_range(container)[1], block)
  /\ UNCHANGED <<scanFrame, occ_i, results>>

\* occ_i after the inner while loop: past the ranges that end before start.
RECURSIVE AdvanceOcc(_)
AdvanceOcc(i) ==
  IF i <= Len(occupied) /\ occupied[i][2] < start THEN AdvanceOcc(i + 1) ELSE i

\* One turn of the while loop in which an occupied range overlaps the block.
ScanJump ==
  /\ spc = "scan" /\ start + block - 1 <= c_last
  /\ LET i == AdvanceOcc(occ_i)
     IN /\ i <= Len(occupied) /\ occupied[i][1] <= start + block - 1
        /\ occ_i' = i
        /\ start' = _round_up(occupied[i][2] + 1, block)
  /\ UNCHANGED <<scanFrame, spc, occupied, results>>

\* One turn of the while loop in which the block is free.
ScanFree ==
  /\ spc = "scan" /\ start + block - 1 <= c_last
  /\ LET i == AdvanceOcc(occ_i)
     IN /\ ~(i <= Len(occupied) /\ occupied[i][1] <= start + block - 1)
        /\ occ_i' = i
        /\ results' = Append(results, CidrOf(start, desired_len))
        /\ IF limit # 0 /\ Len(results') >= limit
           THEN spc' = "done" /\ UNCHANGED start
           ELSE spc' = "scan" /\ start' = start + block
  /\ UNCHANGED <<scanFrame, occupied>>

\* The while condition fails: return results.
ScanReturn ==
  /\ spc = "scan" /\ ~(start + block - 1 <= c_last)
  /\ spc' = "done"
  /\ UNCHANGED <<scanFrame, occupied, start, occ_i, results>>

NextScan ==
  \/ RunScript
  \/ ScanJump
  \/ ScanFree
  \/ ScanReturn

(***************************************************************************)
(* create_network_addresses.py                                             *)
(***************************************************************************)
\* The hosts of the scenarios: the blocks of a scenario lie in the first four
\* addresses of the (scaled) space of its family.
LastHost == 2 ^ V4Bits - 1
PrefixBlocks(version) == {n \in Networks(version) : _to_range(n)[2] <= LastHost}

TENANT_NERD == "org_NERD"
TENANT_OTHER == "other"
TAG_NETWORK == "network-address"
TAG_GATEWAY == "gateway-address"
TAG_BROADCAST == "broadcast-address"

\* tags = self._role_tags()
_role_tags ==
  [d \in {"NETWORK", "GATEWAY", "BROADCAST"} |->
     IF d = "NETWORK" THEN TAG_NETWORK ELSE IF d = "GATEWAY" THEN TAG_GATEWAY ELSE TAG_BROADCAST]

PrefixRow(n, vrf, status, role) ==
  [version |-> n.version, first |-> n.first, plen |-> n.plen, vrf |-> vrf,
   status |-> status, role |-> role]

\* The rows the Prefix table may hold for a family: every block as an active prefix
\* of the Global VRF, the largest block as an active prefix of another VRF, and the
\* first half of it as a prefix of role "container".
PrefixRows(version) ==
  LET blocks == PrefixBlocks(version)
      top == CHOOSE n \in blocks : \A m \in blocks : n.plen <= m.plen
      half == [version |-> version, first |-> 0, plen |-> top.plen + 1]
  IN {PrefixRow(n, GLOBAL_VRF, "active", "") : n \in blocks}
       \cup {PrefixRow(top, OTHER_VRF, "active", ""),
             PrefixRow(half, GLOBAL_VRF, "active", "container")}

\* The IP addresses that may exist before the first run, without their pk: any host
\* with any mask of a block as a foreign address (other tenant, reserved, no
\* description, no tag), the second host with any mask as an address that looks like
\* an allocated gateway, and one foreign address of the other VRF.
IpTemplates(version) ==
  LET plens == {n.plen : n \in PrefixBlocks(version)}
      foreign(h, l, vrf) ==
        [version |-> version, vrf |-> vrf, host |-> h, plen |-> l, tenant |-> TENANT_OTHER,
         status |-> "reserved", description |-> "", tags |-> {}]
      gateway(h, l) ==
        [version |-> version, vrf |-> GLOBAL_VRF, host |-> h, plen |-> l, tenant |-> TENANT_NERD,
         status |-> "active", description |-> "GATEWAY", tags |-> {TAG_GATEWAY}]
  IN {foreign(h, l, GLOBAL_VRF) : h \in 0..LastHost, l \in plens}
       \cup {gateway(1, l) : l \in plens}
       \cup {foreign(1, MaxBits(version), OTHER_VRF)}

MaxPrefixes == 2
MaxIps == 1

WithPk(t, pk) ==
  [pk |-> pk, version |-> t.version, vrf |-> t.vrf, host |-> t.host, plen |-> t.plen,
   tenant |-> t.tenant, status |-> t.status, description |-> t.description, tags |-> t.tags]

InitAlloc ==
  /\ \E version \in {4, 6} :
       /\ pfx_table \in SubsetsUpTo(PrefixRows(version), MaxPrefixes)
       /\ ips \in {{WithPk(sq[k], k) : k \in 1..Len(sq)} :
                     sq \in SeqsUpTo(IpTemplates(version), MaxIps)}
  /\ next_pk = MaxIps + 1
  /\ apc = "start"
  /\ run_no = 1
  /\ qs = <<>>
  /\ pfx_i = 1
  /\ ip_log = <<>>

\* Prefix.objects.filter(status="active") without the prefixes of role "container".
ActivePrefixes(rows) == {r \in rows : r.status = "active" /\ r.role # "container"}

\* The order qs.iterator() yields the prefixes in: the ordering of NetBox's Prefix
\* model, (vrf, prefix, pk). The Global VRF comes first; prefixes compare as
\* PostgreSQL compares cidr values, on the bits both masks cover, then on the mask
\* length, so a prefix comes before the prefixes it contains.
PrefixLess(a, b) ==
  LET m == IF a.plen <= b.plen THEN a.plen ELSE b.plen
      w == MaxBits(a.version)
      ka == a.first \div (2 ^ (w - m))
      kb == b.first \div (2 ^ (w - m))
  IN \/ a.vrf < b.vrf
     \/ a.vrf = b.vrf /\ ka < kb
     \/ a.vrf = b.vrf /\ ka = kb /\ a.plen < b.plen

RECURSIVE OrderedPrefixes(_)
OrderedPrefixes(rows) ==
  IF rows = {} THEN <<>>
  ELSE LET least == CHOOSE a \in rows : \A b \in rows \ {a} : PrefixLess(a, b)
       IN <<least>> \o OrderedPrefixes(rows \ {least})

\* _variants_for_lookup: "<host>/<parent_plen>" and "<host>/32" (IPv6: "/128").
_variants_for_lookup(version, host_ip, parent_plen) ==
  IF version = 4
  THEN << <<host_ip, parent_plen>>, <<host_ip, MaxBits(4)>> >>
  ELSE << <<host_ip, parent_plen>>, <<host_ip, MaxBits(6)>> >>

\* IPAddress.objects.filter(vrf=vrf, address__in=variants)
Existing(rows, t) ==
  {o \in rows : /\ o.vrf = t.vrf
                /\ o.version = t.version
                /\ <<o.host, o.plen>> \in Range(_variants_for_lookup(t.version, t.host_ip,
                                                                     t.parent_plen))}

\* .order_by("pk") ... .first()
FirstByPkMutant(objs) == CHOOSE o \in objs : \A x \in objs : x.pk <= o.pk
FirstByPk(objs) == CHOOSE o \in objs : \A x \in objs : o.pk <= x.pk

LogEntry(op, pk, t) ==
  [run |-> run_no, op |-> op, pk |-> pk, description |-> t.description,
   host |-> t.host_ip, plen |-> t.parent_plen]

\* _ensure_updated on the row ip_obj, in the state st = [ips, next_pk, log].
\* ip_obj.save() succeeds: Django's save() runs no model validation.
_ensure_updated(st, ip_obj, t) ==
  LET changed == \/ ip_obj.host # t.host_ip \/ ip_obj.plen # t.parent_plen
                 \/ ip_obj.vrf # t.vrf
                 \/ ip_obj.tenant # TENANT_NERD
                 \/ ip_obj.status # "active"
                 \/ ip_obj.description # t.description
      add_tag == t.role_tag \notin ip_obj.tags
      saved == [ip_obj EXCEPT !.host = t.host_ip, !.plen = t.parent_plen, !.vrf = t.vrf,
                              !.tenant = TENANT_NERD, !.status = "active",
                              !.description = t.description]
      tagged == [saved EXCEPT !.tags = @ \cup {t.role_tag}]
      entries == (IF changed THEN <<LogEntry("save", ip_obj.pk, t)>> ELSE <<>>)
                   \o (IF add_tag THEN <<LogEntry("tag_add", ip_obj.pk, t)>> ELSE <<>>)
                   \o (IF changed /\ ~add_tag
                       THEN <<LogEntry("Updated", ip_obj.pk, t)>>
                       ELSE <<LogEntry("No change", ip_obj.pk, t)>>)
  IN [ips |-> (st.ips \ {ip_obj}) \cup {tagged}, next_pk |-> st.next_pk,
      log |-> st.log \o entries]

\* _create_ip
_create_ip(st, t) ==
  LET ip == [pk |-> st.next_pk, version |-> t.version, vrf |-> t.vrf, host |-> t.host_ip,
             plen |-> t.parent_plen, tenant |-> TENANT_NERD, status |-> "active",
             description |-> t.description, tags |-> {t.role_tag}]
  IN [ips |-> st.ips \cup {ip}, next_pk |-> st.next_pk + 1,
      log |-> st.log \o <<LogEntry("create", ip.pk, t), LogEntry("tag_add", ip.pk, t),
                          LogEntry("Created", ip.pk, t)>>]

\* _upsert_ip
_upsert_ip(st, t) ==
  LET existing == Existing(st.ips, t)
  IN IF existing # {} THEN _ensure_updated(st, FirstByPk(existing), t) ELSE _create_ip(st, t)

Target(pfx, description, host_ip) ==
  [version |-> pfx.version, vrf |-> pfx.vrf, description |-> description,
   role_tag |-> _role_tags[description], parent_plen |-> pfx.plen, host_ip |-> host_ip]

\* The role addresses the loop body upserts for a prefix, in order.
RoleTargets(pfx) ==
  LET net == _to_range(pfx)
      size == net[2] - net[1] + 1
  IN <<Target(pfx, "NETWORK", net[1])>>
       \o (IF pfx.version = 4
           THEN (IF size >= 4
                 THEN <<Target(pfx, "GATEWAY", net[1] + 1), Target(pfx, "BROADCAST", net[2])>>
                 ELSE <<>>)
           ELSE (IF size >= 2 THEN <<Target(pfx, "GATEWAY", net[1] + 1)>> ELSE <<>>))

RECURSIVE UpsertAll(_, _)
UpsertAll(st, targets) ==
  IF targets = <<>> THEN st ELSE UpsertAll(_upsert_ip(st, Head(targets)), Tail(targets))

\* What no step of run() changes: the Prefix table, and the state of the other scripts.
allocFrame == <<pfx_table, dnsVars, macVars, scanVars, vlanVars, poolVars,
   retryVars>>

\* run() up to the loop: the queryset.
StartRun ==
  /\ apc = "start"
  /\ qs' = OrderedPrefixes(ActivePrefixes(pfx_table))
  /\ pfx_i' = 1
  /\ apc' = "loop"
  /\ UNCHANGED <<allocFrame, ips, next_pk, run_no, ip_log>>

\* The loop body for one prefix.
ProcessPrefix ==
  /\ apc = "loop" /\ pfx_i <= Len(qs)
  /\ LET st == UpsertAll([ips |-> ips, next_pk |-> next_pk, log |-> ip_log],
                         RoleTargets(qs[pfx_i]))
     IN /\ ips' = st.ips
        /\ next_pk' = st.next_pk
        /\ ip_log' = st.log
  /\ pfx_i' = pfx_i + 1
  /\ UNCHANGED <<allocFrame, apc, run_no, qs>>

\* The loop is over: the run is done.
FinishRun ==
  /\ apc = "loop" /\ pfx_i > Len(qs)
  /\ apc' = "done"
  /\ UNCHANGED <<allocFrame, ips, next_pk, run_no, qs, pfx_i, ip_log>>

\* The script is run a second time, nothing having changed in between.
RunAgain ==
  /\ apc = "done" /\ run_no = 1
  /\ run_no' = 2
  /\ apc' = "start"
  /\ UNCHANGED <<allocFrame, ips, next_pk, qs, pfx_i, ip_log>>

NextAlloc ==
  \/ StartRun
  \/ ProcessPrefix
  \/ FinishRun
  \/ RunAgain

(***************************************************************************)
(* vlan_sync.py                                                            *)
(***************************************************************************)
VLAN_IGNORE_PREFIXES ==
  {<<"i", "p", "i", "p">>, <<"d", "s", "c">>, <<"g", "r", "e">>, <<"l", "s", "i">>,
   <<"m", "t", "u", "n">>, <<"p", "i", "m", "d">>, <<"p", "i", "m", "e">>, <<"t", "a", "p">>,
   <<"f", "t", "i", "0">>, <<"b", "m", "e", "0">>, <<"j", "s", "r", "v">>, <<"v", "m", "e">>,
   <<"i", "r", "b">>}

\* should_ignore_interface; the only entry of IGNORE_INTERFACE_REGEXES is ^vlan.*
should_ignore_interface(name) ==
  LET name_l == LowerStr(name)
  IN IF StartsWith(name_l, <<"i", "r", "b", ".">>) \/ StartsWith(name_l, <<"v", "l", "a", "n", ".">>)
     THEN FALSE
     ELSE \/ \E pfx \in VLAN_IGNORE_PREFIXES : StartsWith(name_l, pfx)
          \/ StartsWith(name_l, <<"v", "l", "a", "n">>)

\* name.split(".", 1)[0]
RECURSIVE BeforeDot(_)
BeforeDot(name) ==
  IF name = <<>> \/ Head(name) = "." THEN <<>> ELSE <<Head(name)>> \o BeforeDot(Tail(name))

\* The interface names of the device: one NetBox knows, one it does not know, an
\* ignored one, and a dotted one that the ignore rules let through.
GE1 == <<"g", "e", "1">>
GE2 == <<"g", "e", "2">>
VLAN2 == <<"v", "l", "a", "n", "2">>
IRB_DOT1 == <<"i", "r", "b", ".", "1">>
DeviceIfNames == {GE1, GE2, VLAN2, IRB_DOT1}
NbIfName == GE1

\* None, for a VID, a NetBox id, a mode or a token.
NoVid == 0
NoTok == [kind |-> "none", n |-> 0, s |-> ""]
IntTok(n) == [kind |-> "int", n |-> n, s |-> ""]
StrTok(s) == [kind |-> "str", n |-> 0, s |-> s]

\* junos_vlan_catalog_from_set of the device's `set vlans <name> vlan-id <vid>` lines.
name_to_vid == [s \in {"v10", "v20"} |-> IF s = "v10" THEN 10 ELSE 20]

\* resolve_token_to_vid
resolve_token_to_vid(tok) ==
  IF tok.kind = "none" THEN NoVid
  ELSE IF tok.kind = "int" THEN tok.n
  ELSE IF tok.s \in DOMAIN name_to_vid THEN name_to_vid[tok.s] ELSE NoVid

\* The VLAN a token of a Junos statement names on the device: a VLAN name of the
\* catalogue, or a VLAN id written in digits.
DigitsValue(s) == IF s = "20" THEN 20 ELSE NoVid
VidOnDevice(tok) ==
  IF tok.kind = "int" THEN tok.n
  ELSE IF tok.kind = "str" /\ tok.s \in DOMAIN name_to_vid THEN name_to_vid[tok.s]
  ELSE IF tok.kind = "str" THEN DigitsValue(tok.s)
  ELSE NoVid

\* lookups.nb_id_from_vid: the NetBox id of the VLAN with that VID (NoVid: None).
NbIdOf(vid) == vid + 100
nb_id_from_vid(vid) == IF vid # NoVid /\ vid \in nb_vids THEN NbIdOf(vid) ELSE NoVid

\* The statements a Junos unit may carry: interface-mode, the tokens after `vlan
\* members` (as split from the line, so always strings), and the native VLAN
\* (native-vlan-id gives an int, native-vlan a name).
MemberLists ==
  {<<>>, <<StrTok("v10")>>, <<StrTok("20")>>, <<StrTok("v10"), StrTok("v20")>>,
   <<StrTok("v20"), StrTok("20")>>}
JunosUnit(mode, members, native) == [mode |-> mode, tagged |-> members, native |-> native]
FirstUnits ==
  {JunosUnit(m, t, n) : m \in {"", "access", "trunk"}, t \in MemberLists,
                        n \in {NoTok, IntTok(10), StrTok("v20")}}
SecondUnits ==
  {JunosUnit("trunk", <<StrTok("v20")>>, IntTok(20)), JunosUnit("trunk", <<StrTok("v10")>>, NoTok),
   JunosUnit("access", <<StrTok("v20")>>, NoTok), JunosUnit("", <<>>, NoTok)}
JunosConfigs ==
  {<<>>} \cup {<<u>> : u \in FirstUnits} \cup {<<u, w>> : u \in FirstUnits, w \in SecondUnits}

\* The fields parse_ios_switchport reads from a switchport block: Operational (or
\* Administrative) Mode, Access Mode VLAN, Trunking Native Mode VLAN, Trunking VLANs
\* Enabled (already through parse_vlan_list_str: ascending, no duplicates).
IosNoBlock == [mode |-> "", acc |-> NoVid, native |-> NoVid, tagged |-> <<>>]
IosBlocks ==
  {[mode |-> m, acc |-> a, native |-> n, tagged |-> t] :
     m \in {"trunk", "access", "down", ""}, a \in {NoVid, 10}, n \in {NoVid, 20},
     t \in {<<>>, <<10, 20>>, <<20, 30>>}}

\* What NetBox may hold for the interface.
NbNoInterface == [mode |-> "", untagged_vlan |-> NoVid, tagged_vlans |-> {}]
NbStates ==
  {[mode |-> m, untagged_vlan |-> u[1], tagged_vlans |-> u[2]] :
     m \in {"", "access", "tagged"},
     u \in {<<NoVid, {}>>, <<NbIdOf(10), {}>>, <<NbIdOf(10), {NbIdOf(20), NbIdOf(30)}>>,
            <<NbIdOf(20), {NbIdOf(10), NbIdOf(20)}>>, <<NoVid, {NbIdOf(20)}>>}}

InitVlan ==
  /\ v_platform \in {"juniper", "cisco_ios"}
  /\ v_ifname \in DeviceIfNames
  /\ IF v_platform = "juniper"
     THEN v_units \in JunosConfigs /\ v_block = IosNoBlock
     ELSE v_units = <<>> /\ v_block \in IosBlocks
  /\ nb_vids \in {{10, 20, 30}, {10, 30}}
  /\ nb_cur \in NbStates
  /\ nb_repr \in {"plain", "record"}
  /\ v_dry_run \in BOOLEAN
  /\ vpc = "start"
  /\ sw_map = <<>>
  /\ sw_i = 1
  /\ update_calls = <<>>
  /\ nb_cur0 = nb_cur
  /\ total_changed = 0
  /\ total_seen = 0

\* The entry of a unit in per_unit when junos_interfaces_from_set returns: the mode
\* is inferred from the number of members when no statement sets it; an access unit
\* keeps its first member as access VLAN and drops tagged and native.
JunosFinalize(u) ==
  LET mode == IF u.mode # "" THEN u.mode
              ELSE IF Len(u.tagged) <= 1 THEN "access" ELSE "trunk"
  IN IF mode = "access"
     THEN [mode |-> "access", access |-> IF u.tagged # <<>> THEN u.tagged[1] ELSE NoTok,
           native |-> NoTok, tagged |-> {}]
     ELSE [mode |-> "trunk", access |-> NoTok, native |-> u.native, tagged |-> Range(u.tagged)]

\* junos_interfaces_from_set
junos_interfaces_from_set(units) == [i \in 1..Len(units) |-> JunosFinalize(units[i])]

\* The first loop of collapse_junos_units over the units of one physical interface.
RECURSIVE CollapseUnits(_, _)
CollapseUnits(per_unit, cur) ==
  IF per_unit = <<>> THEN cur
  ELSE LET v == Head(per_unit)
           merged ==
             IF v.mode = "trunk"
             THEN [mode |-> "trunk", access |-> NoTok,
                   native |-> IF cur.native = NoTok /\ v.native # NoTok THEN v.native
                              ELSE cur.native,
                   tagged |-> cur.tagged \cup v.tagged]
             ELSE IF cur.mode # "trunk" /\ v.access # NoTok
                  THEN [cur EXCEPT !.access = v.access]
                  ELSE cur
       IN CollapseUnits(Tail(per_unit), merged)

\* collapse_junos_units: the physical interface of the units (none without units).
collapse_junos_units(per_unit) ==
  IF per_unit = <<>> THEN <<>>
  ELSE LET cur == CollapseUnits(per_unit, [mode |-> "access", access |-> NoTok,
                                           native |-> NoTok, tagged |-> {}])
       IN IF cur.mode = "access"
          THEN << [cur EXCEPT !.tagged = {}, !.native = NoTok] >>
          ELSE << [cur EXCEPT !.access = NoTok] >>

\* The loop of main() that resolves the names of sw_map to VIDs.
ResolveDesc(desc) ==
  IF desc.mode = "access"
  THEN [mode |-> "access", access |-> resolve_token_to_vid(desc.access), native |-> NoVid,
        tagged |-> {}]
  ELSE [mode |-> desc.mode, access |-> NoVid, native |-> resolve_token_to_vid(desc.native),
        tagged |-> {resolve_token_to_vid(t) : t \in desc.tagged} \ {NoVid}]

\* parse_ios_switchport of one block (no entry when no mode can be told).
parse_ios_switchport(b) ==
  LET mode == IF b.mode = "trunk" THEN "trunk"
              ELSE IF b.mode = "access" THEN "access"
              ELSE IF b.tagged # <<>> THEN "trunk"
              ELSE IF b.acc # NoVid THEN "access" ELSE ""
  IN IF mode = "" THEN <<>>
     ELSE << [mode |-> mode, access |-> b.acc, native |-> b.native, tagged |-> Range(b.tagged)] >>

\* sw_map as main() builds it for the platform.
SwMapOf ==
  LET descs == IF v_platform = "juniper"
               THEN [i \in 1..Len(collapse_junos_units(junos_interfaces_from_set(v_units))) |->
                       ResolveDesc(collapse_junos_units(junos_interfaces_from_set(v_units))[i])]
               ELSE parse_ios_switchport(v_block)
  IN [i \in 1..Len(descs) |-> <<v_ifname, descs[i]>>]

\* The desired dict of the loop body.
DesiredOf(desc) ==
  LET mode_slug == IF desc.mode = "access" THEN "access" ELSE "tagged"
      untagged_id == IF mode_slug = "tagged" /\ desc.native # NoVid
                     THEN nb_id_from_vid(desc.native)
                     ELSE IF mode_slug = "access" /\ desc.access # NoVid
                          THEN nb_id_from_vid(desc.access)
                          ELSE NoVid
      tagged_ids == {nb_id_from_vid(v) : v \in desc.tagged} \ {NoVid}
  IN [mode |-> mode_slug, untagged_vlan |-> untagged_id,
      tagged_vlans |-> IF mode_slug = "tagged" THEN tagged_ids ELSE {}]

\* changed: with plain values the three comparisons of the code; a Record object of
\* the client (a choice field read as .value elsewhere in the repository) or None
\* never equals the slug desired["mode"], which decides the disjunction.
Changed(desired) ==
  \/ nb_repr = "record"
  \/ nb_cur.mode # desired.mode
  \/ nb_cur.untagged_vlan # desired.untagged_vlan
  \/ nb_cur.tagged_vlans # desired.tagged_vlans

\* What no step of main() changes: its inputs, and the state of the other scripts.
vlanFrame == <<v_platform, v_ifname, v_units, v_block, nb_vids, nb_repr, v_dry_run, nb_cur0,
               dnsVars, macVars, scanVars, allocVars, poolVars,
   retryVars>>

\* main() for a device up to the interface loop: SSH, the platform's parser.
Collect ==
  /\ vpc = "start"
  /\ \E ssh_ok \in BOOLEAN :
       IF ssh_ok
       THEN sw_map' = SwMapOf /\ vpc' = "loop"
       ELSE sw_map' = sw_map /\ vpc' = "done"
  /\ UNCHANGED <<vlanFrame, nb_cur, sw_i, update_calls, total_changed, total_seen>>

cur_ifname == sw_map[sw_i][1]
InNetBox(ifname) == BeforeDot(ifname) = NbIfName \/ ifname = NbIfName

\* if should_ignore_interface(ifname): continue
IgnoreInterface ==
  /\ vpc = "loop" /\ sw_i <= Len(sw_map)
  /\ should_ignore_interface(cur_ifname)
  /\ sw_i' = sw_i + 1
  /\ UNCHANGED <<vlanFrame, nb_cur, vpc, sw_map, update_calls, total_changed, total_seen>>

\* skip <ifname> (not present in NetBox)
SkipMissing ==
  /\ vpc = "loop" /\ sw_i <= Len(sw_map)
  /\ ~should_ignore_interface(cur_ifname)
  /\ ~InNetBox(cur_ifname)
  /\ sw_i' = sw_i + 1
  /\ total_seen' = total_seen + 1
  /\ UNCHANGED <<vlanFrame, nb_cur, vpc, sw_map, update_calls, total_changed>>

\* The loop body for an interface NetBox holds.
SyncInterface ==
  /\ vpc = "loop" /\ sw_i <= Len(sw_map)
  /\ ~should_ignore_interface(cur_ifname)
  /\ InNetBox(cur_ifname)
  /\ sw_i' = sw_i + 1
  /\ total_seen' = total_seen + 1
  /\ LET desired == DesiredOf(sw_map[sw_i][2])
     IN IF Changed(desired) /\ ~v_dry_run
        THEN \E ok \in BOOLEAN :
               /\ update_calls' = Append(update_calls, desired)
               /\ nb_cur' = IF ok THEN desired ELSE nb_cur
               /\ total_changed' = IF ok THEN total_changed + 1 ELSE total_changed
        ELSE UNCHANGED <<nb_cur, update_calls, total_changed>>
  /\ UNCHANGED <<vlanFrame, vpc, sw_map>>

\* The loop is over: net_connect.disconnect().
FinishVlan ==
  /\ vpc = "loop" /\ sw_i > Len(sw_map)
  /\ vpc' = "done"
  /\ UNCHANGED <<vlanFrame, nb_cur, sw_map, sw_i, update_calls, total_changed, total_seen>>

NextVlan ==
  \/ Collect
  \/ IgnoreInterface
  \/ SkipMissing
  \/ SyncInterface
  \/ FinishVlan

(***************************************************************************)
(* mac_sync.py: main() and the thread pool                                 *)
(***************************************************************************)
\* WORKERS, scaled down from 6 so that the devices of the model outnumber the
\* threads of the pool.
WORKERS == 2
MaxDevices == 3

\* What a device learned on its interface and what NetBox holds for it at the start.
\* Device d has the single interface d.
M1 == MacList[1]
M2 == MacList[2]
DeviceProfiles ==
  {[learned |-> {M1}, macs0 |-> {M2}, has_primary |-> TRUE],
   [learned |-> {M2}, macs0 |-> {M1, M2}, has_primary |-> FALSE]}

\* The MAC objects NetBox holds at the start for the devices devs, and the primary
\* MAC objects of their interfaces.
InitialObjs(devs) ==
  UNION {{[id |-> 2 * (d - 1) + k, mac_address |-> MacList[k], iface |-> d] :
            k \in {n \in 1..Len(MacList) : MacList[n] \in devs[d].macs0}} :
           d \in 1..Len(devs)}
InitialPrimary(devs, objs) ==
  [d \in 1..Len(devs) |->
     IF devs[d].has_primary /\ \E o \in objs : o.iface = d
     THEN CHOOSE i \in {o.id : o \in {x \in objs : x.iface = d}} :
            \A o \in objs : o.iface = d => i <= o.id
     ELSE 0]

NoSummary == [adds |-> 0, removes |-> 0, errors |-> 0, logged |-> FALSE]
NoLocal ==
  [gathered |-> FALSE, to_remove |-> {}, to_add |-> <<>>, adds |-> 0, removes |-> 0,
   current_primary |-> NoMac]

PoolDevices == 1..Len(p_devices)

InitPool ==
  /\ p_devices \in SeqsUpTo(DeviceProfiles, MaxDevices) \ {<<>>}
  /\ p_main = "submit"
  /\ p_pc = [d \in PoolDevices |-> "new"]
  /\ p_submits = [d \in PoolDevices |-> 0]
  /\ p_objs = InitialObjs(p_devices)
  /\ p_primary = InitialPrimary(p_devices, p_objs)
  /\ p_next_id = 2 * Len(p_devices) + 1
  /\ p_local = [d \in PoolDevices |-> NoLocal]
  /\ p_summary = [d \in PoolDevices |-> [adds |-> 0, removes |-> 0, errors |-> 0]]
  /\ summaries = <<>>
  /\ p_total = NoSummary

\* What no step of main() or of a sync_one changes: the device list and the state of the
\* other scripts.
poolFrame == <<p_devices, dnsVars, macVars, scanVars, allocVars, vlanVars, retryVars>>

\* The calls of sync_one a worker thread is executing.
Running == {d \in PoolDevices : p_pc[d] \in {"gather", "fetch", "list", "write"}}

\* futures = [tp.submit(sync_one, nb, d) for d in devices]: the next device of the list.
Submit ==
  /\ p_main = "submit"
  /\ LET d == CHOOSE e \in PoolDevices : p_pc[e] = "new" /\ \A f \in 1..(e - 1) : p_pc[f] # "new"
     IN /\ p_pc' = [p_pc EXCEPT ![d] = "queued"]
        /\ p_submits' = [p_submits EXCEPT ![d] = @ + 1]
        /\ p_main' = IF d = Len(p_devices) THEN "collect" ELSE "submit"
  /\ UNCHANGED <<poolFrame, p_objs, p_primary, p_next_id, p_local, p_summary, summaries, p_total>>

\* ThreadPoolExecutor(max_workers=WORKERS): a free worker takes the oldest queued call.
StartWorker(d) ==
  /\ p_pc[d] = "queued"
  /\ \A e \in 1..(d - 1) : p_pc[e] # "queued"
  /\ Cardinality(Running) < WORKERS
  /\ p_pc' = [p_pc EXCEPT ![d] = "gather"]
  /\ UNCHANGED <<poolFrame, p_main, p_submits, p_objs, p_primary, p_next_id, p_local, p_summary,
                 summaries, p_total>>

\* sync_one up to the interface loop: management IP, platform, SSH gathering.
PoolGather(d) ==
  /\ p_pc[d] = "gather"
  /\ \E outcome \in {"ok", "no_ip", "unsupported", "ssh_failed"} :
       /\ p_local' = [p_local EXCEPT ![d].gathered = (outcome = "ok")]
       /\ p_pc' = [p_pc EXCEPT ![d] = IF outcome = "ok" THEN "fetch" ELSE "done"]
       /\ p_summary' = [p_summary EXCEPT ![d].errors =
                          IF outcome \in {"no_ip", "ssh_failed"} THEN 1 ELSE 0]
  /\ UNCHANGED <<poolFrame, p_main, p_submits, p_objs, p_primary, p_next_id, summaries, p_total>>

\* fetch_nb_ifaces(nb, device.id): the interface as NetBox holds it now.
PoolFetch(d) ==
  /\ p_pc[d] = "fetch"
  /\ p_local' = [p_local EXCEPT ![d].current_primary = MacOfPrimary(p_objs, p_primary, d)]
  /\ p_pc' = [p_pc EXCEPT ![d] = "list"]
  /\ UNCHANGED <<poolFrame, p_main, p_submits, p_objs, p_primary, p_next_id, p_summary, summaries,
                 p_total>>

\* sync_interface_macs: existing = rest_list_interface_macs(iface_id); compute_changes.
PoolList(d) ==
  /\ p_pc[d] = "list"
  /\ LET existing == rest_list_interface_macs(p_objs, d)
     IN p_local' = [p_local EXCEPT
                      ![d].to_remove = ToRemove(p_devices[d].learned, existing),
                      ![d].to_add = SortedMacs(ToAdd(p_devices[d].learned, existing))]
  /\ p_pc' = [p_pc EXCEPT ![d] = "write"]
  /\ UNCHANGED <<poolFrame, p_main, p_submits, p_objs, p_primary, p_next_id, p_summary, summaries,
                 p_total>>

\* for obj in to_remove: rest_delete_mac(obj["id"]); removes += 1
PoolDelete(d) ==
  /\ p_pc[d] = "write"
  /\ p_local[d].to_remove # {}
  /\ LET obj == CHOOSE o \in p_local[d].to_remove : \A x \in p_local[d].to_remove : o.id <= x.id
     IN /\ p_objs' = {o \in p_objs : o.id # obj.id}
        /\ p_primary' = [i \in PoolDevices |-> IF p_primary[i] = obj.id THEN 0 ELSE p_primary[i]]
        /\ p_local' = [p_local EXCEPT ![d].to_remove = @ \ {obj}, ![d].removes = @ + 1]
  /\ UNCHANGED <<poolFrame, p_main, p_pc, p_submits, p_next_id, p_summary, summaries, p_total>>

\* for mac in sorted(to_add): rest_create_mac(mac, iface_id); adds += 1
PoolCreate(d) ==
  /\ p_pc[d] = "write"
  /\ p_local[d].to_remove = {}
  /\ p_local[d].to_add # <<>>
  /\ p_objs' = p_objs \cup {[id |-> p_next_id, mac_address |-> Head(p_local[d].to_add), iface |-> d]}
  /\ p_next_id' = p_next_id + 1
  /\ p_local' = [p_local EXCEPT ![d].to_add = Tail(@), ![d].adds = @ + 1]
  /\ UNCHANGED <<poolFrame, p_main, p_pc, p_submits, p_primary, p_summary, summaries, p_total>>

\* The refresh and the primary MAC hygiene of sync_interface_macs, then the end of
\* sync_one: summary["adds"] = total_adds; summary["removes"] = total_removes.
PoolHygiene(d) ==
  /\ p_pc[d] = "write"
  /\ p_local[d].to_remove = {}
  /\ p_local[d].to_add = <<>>
  /\ LET desired == p_devices[d].learned
         final_objs == rest_list_interface_macs(p_objs, d)
         current_primary == p_local[d].current_primary
         do_clear == current_primary # NoMac /\ current_primary \notin desired
         only_mac == CHOOSE m \in desired : TRUE
         only_id == FinalMapGet(final_objs, only_mac)
         do_set == current_primary = NoMac /\ Cardinality(desired) = 1 /\ only_id # 0
     IN p_primary' = [p_primary EXCEPT ![d] = IF do_set THEN only_id
                                              ELSE IF do_clear THEN 0 ELSE @]
  /\ p_summary' = [p_summary EXCEPT ![d].adds = p_local[d].adds,
                                    ![d].removes = p_local[d].removes]
  /\ p_pc' = [p_pc EXCEPT ![d] = "done"]
  /\ UNCHANGED <<poolFrame, p_main, p_submits, p_objs, p_next_id, p_local, summaries, p_total>>

\* for f in as_completed(futures): summaries.append(f.result())
Completed(d) ==
  /\ p_main = "collect"
  /\ p_pc[d] = "done"
  /\ d \notin Range(summaries)
  /\ summaries' = Append(summaries, d)
  /\ UNCHANGED <<poolFrame, p_main, p_pc, p_submits, p_objs, p_primary, p_next_id, p_local,
                 p_summary, p_total>>

\* sum(s[field] for s in summaries)
RECURSIVE SumOver(_, _)
SumOver(done, field) ==
  IF done = <<>> THEN 0 ELSE p_summary[Head(done)][field] + SumOver(Tail(done), field)

\* The pool has shut down: the totals are summed and logged.
LogTotal ==
  /\ p_main = "collect"
  /\ Len(summaries) = Len(p_devices)
  /\ p_total' = [adds |-> SumOver(summaries, "adds"), removes |-> SumOver(summaries, "removes"),
                 errors |-> SumOver(summaries, "errors"), logged |-> TRUE]
  /\ p_main' = "done"
  /\ UNCHANGED <<poolFrame, p_pc, p_submits, p_objs, p_primary, p_next_id, p_local, p_summary,
                 summaries>>

NextPool ==
  \/ Submit
  \/ \E d \in PoolDevices : StartWorker(d)
  \/ \E d \in PoolDevices : PoolGather(d)
  \/ \E d \in PoolDevices : PoolFetch(d)
  \/ \E d \in PoolDevices : PoolList(d)
  \/ \E d \in PoolDevices : PoolDelete(d)
  \/ \E d \in PoolDevices : PoolCreate(d)
  \/ \E d \in PoolDevices : PoolHygiene(d)
  \/ \E d \in PoolDevices : Completed(d)
  \/ LogTotal

(***************************************************************************)
(* update_managed_unmanaged_records.py: with_retries                       *)
(***************************************************************************)
MaxAttempts == 3

None == "None"
\* What one call of fn may do: return a value, raise an Exception, or raise a
\* BaseException that is no Exception (KeyboardInterrupt, SystemExit).
FnValues == {"v1", "v2"}
FnExceptions == {"RequestError", "ValueError"}
FnInterrupts == {"KeyboardInterrupt"}
WaitValues == {0, 1}

CallEvent(kind, what) == [op |-> "fn", kind |-> kind, what |-> what, s |-> 0]
SleepEvent(s) == [op |-> "sleep", kind |-> "", what |-> "", s |-> s]

InitRetry ==
  /\ attempts \in 0..MaxAttempts
  /\ wait_s \in WaitValues
  /\ r_pc = "loop"
  /\ r_i = 1
  /\ last_exc = None
  /\ r_result = None
  /\ r_raised = None
  /\ r_trace = <<>>

\* What no step of with_retries changes: its arguments and the state of the other scripts.
retryFrame == <<attempts, wait_s, dnsVars, macVars, scanVars, allocVars, vlanVars, poolVars>>

\* if i == attempts
LastAttemptMutant(i, n) == i > n
LastAttempt(i, n) == i = n

\* return fn(*args, **kwargs)
CallReturns ==
  /\ r_pc = "loop" /\ r_i <= attempts
  /\ \E v \in FnValues :
       /\ r_result' = v
       /\ r_trace' = Append(r_trace, CallEvent("return", v))
  /\ r_pc' = "returned"
  /\ UNCHANGED <<retryFrame, r_i, last_exc, r_raised>>

\* except Exception as e: last_exc = e; if i == attempts: raise
CallFails ==
  /\ r_pc = "loop" /\ r_i <= attempts
  /\ \E e \in FnExceptions :
       /\ last_exc' = e
       /\ r_trace' = Append(r_trace, CallEvent("exception", e))
       /\ IF LastAttempt(r_i, attempts)
          THEN r_pc' = "raised" /\ r_raised' = e
          ELSE r_pc' = "sleep" /\ r_raised' = r_raised
  /\ UNCHANGED <<retryFrame, r_i, r_result>>

\* fn raises what `except Exception` does not catch.
CallInterrupted ==
  /\ r_pc = "loop" /\ r_i <= attempts
  /\ \E e \in FnInterrupts :
       /\ r_raised' = e
       /\ r_trace' = Append(r_trace, CallEvent("interrupt", e))
  /\ r_pc' = "raised"
  /\ UNCHANGED <<retryFrame, r_i, last_exc, r_result>>

\* time.sleep(wait_s), then the next round of the loop.
Sleep ==
  /\ r_pc = "sleep"
  /\ r_trace' = Append(r_trace, SleepEvent(wait_s))
  /\ r_i' = r_i + 1
  /\ r_pc' = "loop"
  /\ UNCHANGED <<retryFrame, last_exc, r_result, r_raised>>

\* The range is used up: raise last_exc (raising None is a TypeError).
LoopExit ==
  /\ r_pc = "loop" /\ r_i > attempts
  /\ r_raised' = IF last_exc = None THEN "TypeError" ELSE last_exc
  /\ r_pc' = "raised"
  /\ UNCHANGED <<retryFrame, r_i, last_exc, r_result, r_trace>>

NextRetry ==
  \/ CallReturns
  \/ CallFails
  \/ CallInterrupted
  \/ Sleep
  \/ LoopExit

(***************************************************************************)
(* Specifications                                                          *)
(***************************************************************************)
\* The state of a script that is not running.
IdleDns ==
  /\ forward = <<>> /\ reverse_map = [ip \in Ips |-> {}]
  /\ dry_run = FALSE /\ no_ptr_only = FALSE /\ auto_create_no_ptr = FALSE
  /\ records = {} /\ pc = "idle" /\ ip_i = 1 /\ pair_i = 1 /\ chosen = NoName
  /\ needing = <<>> /\ worklist = <<>> /\ total_checked = 0 /\ filtered_exists_ok = 0
  /\ filtered_no_zone = 0 /\ filtered_search_err = 0 /\ work_i = 1 /\ prompt = NoPrompt
  /\ proceed = FALSE /\ ipam_calls = {} /\ dns_calls = {} /\ ensure_applied = {}
  /\ check_log = <<>>

IdleMac ==
  /\ nb_ifaces = <<>> /\ learned_norm = [i \in IfaceIds |-> {}] /\ mac_objs = {}
  /\ primary = [i \in IfaceIds |-> 0] /\ next_id = 1 /\ mpc = "idle" /\ iface_i = 1
  /\ summary = [adds |-> 0, removes |-> 0, errors |-> 0] /\ mac_calls = {}
  /\ reconciled = {} /\ clean = {} /\ mac_objs0 = {} /\ primary0 = [i \in IfaceIds |-> 0]

IdleScan ==
  /\ container = [version |-> 4, first |-> 0, plen |-> 0, vrf |-> GLOBAL_VRF]
  /\ prefixes = {} /\ desired_len = 0 /\ limit = 0 /\ spc = "idle" /\ occupied = <<>>
  /\ start = 0 /\ occ_i = 1 /\ results = <<>>

IdleAlloc ==
  /\ pfx_table = {} /\ ips = {} /\ next_pk = 1 /\ apc = "idle" /\ run_no = 1 /\ qs = <<>>
  /\ pfx_i = 1 /\ ip_log = <<>>

IdleVlan ==
  /\ v_platform = "" /\ v_ifname = <<>> /\ v_units = <<>> /\ v_block = IosNoBlock
  /\ nb_vids = {} /\ nb_cur = NbNoInterface /\ nb_repr = "plain" /\ v_dry_run = FALSE
  /\ vpc = "idle" /\ sw_map = <<>> /\ sw_i = 1 /\ update_calls = <<>> /\ nb_cur0 = NbNoInterface
  /\ total_changed = 0 /\ total_seen = 0

IdlePool ==
  /\ p_devices = <<>> /\ p_main = "idle" /\ p_pc = <<>> /\ p_submits = <<>> /\ p_objs = {}
  /\ p_primary = <<>> /\ p_next_id = 1 /\ p_local = <<>> /\ p_summary = <<>>
  /\ summaries = <<>> /\ p_total = NoSummary

IdleRetry ==
  /\ attempts = 0 /\ wait_s = 0 /\ r_pc = "idle" /\ r_i = 0 /\ last_exc = None
  /\ r_result = None /\ r_raised = None /\ r_trace = <<>>

DnsInit == InitDns /\ IdleMac /\ IdleScan /\ IdleAlloc /\ IdleVlan /\ IdlePool /\ IdleRetry
MacInit == InitMac /\ IdleDns /\ IdleScan /\ IdleAlloc /\ IdleVlan /\ IdlePool /\ IdleRetry
ScanInit == InitScan /\ IdleDns /\ IdleMac /\ IdleAlloc /\ IdleVlan /\ IdlePool /\ IdleRetry
AllocInit == InitAlloc /\ IdleDns /\ IdleMac /\ IdleScan /\ IdleVlan /\ IdlePool /\ IdleRetry
VlanInit == InitVlan /\ IdleDns /\ IdleMac /\ IdleScan /\ IdleAlloc /\ IdlePool /\ IdleRetry
PoolInit == InitPool /\ IdleDns /\ IdleMac /\ IdleScan /\ IdleAlloc /\ IdleVlan /\ IdleRetry

SpecDns == DnsInit /\ [][NextDns]_vars
SpecMac == MacInit /\ [][NextMac]_vars
SpecScan == ScanInit /\ [][NextScan]_vars
SpecAlloc == AllocInit /\ [][NextAlloc]_vars
SpecVlan == VlanInit /\ [][NextVlan]_vars
RetryInit ==
  InitRetry /\ IdleDns /\ IdleMac /\ IdleScan /\ IdleAlloc /\ IdleVlan /\ IdlePool
SpecPool == PoolInit /\ [][NextPool]_vars
SpecRetry == RetryInit /\ [][NextRetry]_vars

(***************************************************************************)
(* Claims about update_managed_unmanaged_records.py                        *)
(***************************************************************************)
ForwardNamesOf(ip) == {forward[i][1] : i \in {j \in 1..Len(forward) : forward[j][3] = ip}}

\* C1: every create or update issued to NetBox IPAM sets dns_name to an FQDN that is
\* both an A/AAAA owner of the IP in the forward zones and a PTR target of that IP;
\* an IP none of whose forward FQDNs equals one of its PTR targets gets no IPAM call.
C1_PtrLockedIpam ==
  /\ \A w \in ipam_calls :
       /\ w.dns_name \in reverse_map[w.ip]
       /\ w.dns_name \in ForwardNamesOf(w.ip)
  /\ \A ip \in Ips :
       (ForwardNamesOf(ip) \cap reverse_map[ip] = {}) => ~(\E w \in ipam_calls : w.ip = ip)

\* An IPAM call was issued for an IP whose first forward name is not the PTR target.
C1_Witness ==
  \E w \in ipam_calls :
    /\ Len(PairsOf(forward, w.ip)) = 2
    /\ PairsOf(forward, w.ip)[1][1] # w.dns_name
    /\ PairsOf(forward, w.ip)[2][1] = w.dns_name

\* C2: in the main pass, for an IP with PTR targets, ensure_plugin_record runs on
\* exactly the forward (FQDN, type) pairs whose FQDN equals none of the IP's PTR
\* targets; a forward FQDN that equals a PTR target never gets a disable_ptr record.
C2_MismatchOnly ==
  /\ \A t \in ensure_applied : t[1] \notin reverse_map[t[3]]
  /\ (pc = "done" /\ ~no_ptr_only) =>
       \A i \in 1..Len(forward) :
         (reverse_map[forward[i][3]] # {} /\ forward[i][1] \notin reverse_map[forward[i][3]])
           => forward[i] \in ensure_applied

\* C3: with --dry-run no create or update call is issued to NetBox, in the main pass
\* and in the no-PTR phase alike.
C3_DryRunWritesNothing == dry_run => (ipam_calls = {} /\ dns_calls = {})

\* A dry run that went through the main pass (ensure_plugin_record ran) and through
\* the apply loop of the no-PTR phase.
C3_Witness ==
  dry_run /\ pc = "done" /\ proceed /\ work_i > 1 /\ ensure_applied # {}

\* The write calls that touch a record of a forward whose IP has no PTR.
NoPtrCalls == {c \in dns_calls : reverse_map[c.ip] = {}}

\* The answers that are "y" once surrounding blanks are dropped and case is ignored.
IsYesLike(line) ==
  \E i \in 1..Len(line) :
    /\ line[i] \in {"y", "Y"}
    /\ \A j \in 1..Len(line) : j # i => line[j] = " "

\* C4 (as amended): records of no-PTR forwards are created or updated only in the
\* apply loop, which follows the building and printing of the worklist, and only if
\* --auto-create-no-ptr was given or an interactive user gave an answer that is "y"
\* after stripping blanks and lower-casing; otherwise none is created or updated.
C4_NoPtrGate ==
  /\ \A c \in NoPtrCalls : c.at = "apply"
  /\ NoPtrCalls # {} => (pc \in {"apply", "done"} /\ proceed)
  /\ proceed => (auto_create_no_ptr \/ (prompt.kind = "line" /\ IsYesLike(prompt.line)))
  /\ pc = "apply" => proceed

\* A record of a no-PTR forward was written after an interactive answer.
C4_Witness ==
  NoPtrCalls # {} /\ ~auto_create_no_ptr /\ prompt.kind = "line"

\* C4 as stated: a record of a no-PTR forward is written only with the flag or after
\* the answer 'y'; on any other answer none is.
C4_Original ==
  NoPtrCalls # {} => (auto_create_no_ptr \/ (prompt.kind = "line" /\ prompt.line = <<"y">>))

\* The forward triples of the IPs without PTR, in the order the loops check them.
RECURSIVE ExpectedChecks(_)
ExpectedChecks(keys) ==
  IF keys = <<>> THEN <<>>
  ELSE (IF reverse_map[Head(keys)] = {}
        THEN [i \in 1..Len(PairsOf(forward, Head(keys))) |->
                <<PairsOf(forward, Head(keys))[i][1], PairsOf(forward, Head(keys))[i][2],
                  Head(keys)>>]
        ELSE <<>>) \o ExpectedChecks(Tail(keys))

NeedsAction(entry) == entry[4] \in {"needs_create", "needs_update"}
Built == pc \in {"prompt", "apply", "done"}

\* C5: once built, the worklist lists exactly the forward triples of IPs without PTR
\* whose plugin_check_status was needs_create or needs_update (never exists_ok,
\* no_zone or search_error), and total_checked = filtered_exists_ok +
\* filtered_no_zone + filtered_search_err + the number of listed candidates.
C5_Worklist ==
  Built =>
    /\ Flatten(worklist) = SelectSeq(check_log, NeedsAction)
    /\ [i \in 1..Len(check_log) |-> <<check_log[i][1], check_log[i][2], check_log[i][3]>>]
         = ExpectedChecks(by_ip_keys)
    /\ pc = "prompt" =>
         \A i \in 1..Len(check_log) :
           check_log[i][4] \in
             {"search_error",
              plugin_check_status(records, load_dns_zones, check_log[i][1], check_log[i][2],
                                  check_log[i][3], FALSE)}
    /\ total_checked = filtered_exists_ok + filtered_no_zone + filtered_search_err
                         + Len(Flatten(worklist))

\* A built worklist with a listed candidate and a filtered one.
C5_Witness ==
  /\ pc = "prompt"
  /\ Len(Flatten(worklist)) >= 1
  /\ filtered_exists_ok >= 1

(***************************************************************************)
(* Claims about mac_sync.py                                                *)
(***************************************************************************)
MacsOn(objs, iface_id) == {o.mac_address : o \in rest_list_interface_macs(objs, iface_id)}
CallsOn(op, iface_id) == {c \in mac_calls : c.op = op /\ c.iface = iface_id}

\* C6: after a call of sync_interface_macs in which every REST call succeeded, the
\* MAC addresses assigned to the interface are exactly the learned ones; the creates
\* issued are exactly the learned MACs that were not assigned, and the deletes are
\* exactly the assigned MAC objects whose address was not learned.
C6_Converges ==
  \A i \in clean :
    /\ MacsOn(mac_objs, i) = learned_norm[i]
    /\ {c.mac : c \in CallsOn("create", i)} = learned_norm[i] \ MacsOn(mac_objs0, i)
    /\ {c.id : c \in CallsOn("delete", i)}
         = {o.id : o \in {x \in rest_list_interface_macs(mac_objs0, i) :
                            x.mac_address \notin learned_norm[i]}}

\* Two fault-free calls: one deleted a MAC object and created another, the other
\* emptied an interface on which no MAC was learned.
C6_Witness ==
  /\ \E i \in clean : CallsOn("create", i) # {} /\ CallsOn("delete", i) # {}
  /\ \E i \in clean :
       learned_norm[i] = {} /\ MacsOn(mac_objs0, i) # {} /\ MacsOn(mac_objs, i) = {}

SkippedByRule(f) ==
  \/ should_skip_name(f.name)
  \/ \E pat \in IGNORE_DESC_WILDCARDS : ReFullMatch(_wildcard_to_regex(pat), f.description)

\* C8: when sync_one has gone through the interfaces of a device, an interface that
\* the skip rules name got no create, delete or primary patch, and every other
\* interface was reconciled.
C8_SkipRules ==
  (mpc = "done" /\ iface_i > Len(nb_ifaces)) =>
    \A k \in 1..Len(nb_ifaces) :
      IF SkippedByRule(nb_ifaces[k])
      THEN /\ nb_ifaces[k].id \notin reconciled
           /\ ~(\E c \in mac_calls : c.iface = nb_ifaces[k].id)
      ELSE nb_ifaces[k].id \in reconciled

(***************************************************************************)
(* Claims about find_prefixes.py                                           *)
(***************************************************************************)
\* The child prefixes of the container: the other rows of its VRF and family that
\* lie inside it.
Children ==
  {p \in prefixes : /\ p.vrf = container.vrf
                    /\ p.version = container.version
                    /\ _to_range(p)[1] >= _to_range(container)[1]
                    /\ _to_range(p)[2] <= _to_range(container)[2]}

\* The starts of the free aligned blocks of the desired length, found by trying
\* every address of the family.
FreeStarts ==
  {s \in 0..(2 ^ MaxBits(container.version) - 1) :
     /\ s % block = 0
     /\ s >= _to_range(container)[1]
     /\ s + block - 1 <= c_last
     /\ \A p \in Children : _to_range(p)[2] < s \/ _to_range(p)[1] > s + block - 1}

RECURSIVE Ascending(_)
Ascending(S) ==
  IF S = {} THEN <<>>
  ELSE LET least == CHOOSE a \in S : \A b \in S : a <= b
       IN <<least>> \o Ascending(S \ {least})

\* What a brute-force scan returns: the free blocks, as blocks of the container's
\* family, in ascending order, cut to the first `limit` when a limit > 0 is given.
BruteForce ==
  LET all == Ascending(FreeStarts)
      n == IF limit > 0 /\ limit < Len(all) THEN limit ELSE Len(all)
  IN [i \in 1..n |-> [version |-> container.version, first |-> all[i], plen |-> desired_len]]

\* C9: _scan_available returns exactly the list of a brute-force scan: every block
\* of the desired length that is aligned, inside the container and overlaps no child
\* prefix, ascending and without duplicates, cut to the first n for a limit n > 0.
C9_MatchesBruteForce == spc = "done" => results = BruteForce

\* The integer starts of the returned blocks are those of the brute-force scan.
ScanStartsMatch ==
  spc = "done" =>
    /\ Len(results) = Len(BruteForce)
    /\ \A i \in 1..Len(results) :
         results[i].first = BruteForce[i].first /\ results[i].plen = BruteForce[i].plen

(***************************************************************************)
(* Claims about create_network_addresses.py                                *)
(***************************************************************************)
SecondRunLog == SelectSeq(ip_log, LAMBDA e : e.run = 2)

\* The role addresses of the processed prefixes of the current run, in order.
RECURSIVE TargetsUpTo(_)
TargetsUpTo(n) == IF n = 0 THEN <<>> ELSE TargetsUpTo(n - 1) \o RoleTargets(qs[n])

\* C10: a second run of the script, nothing having changed since the first, saves
\* no IPAddress, creates none and adds no tag; it reports every role address of every
\* processed prefix as "No change".
C10_Idempotent ==
  (run_no = 2 /\ apc \in {"loop", "done"}) =>
    /\ \A i \in 1..Len(SecondRunLog) : SecondRunLog[i].op = "No change"
    /\ Len(SecondRunLog) = Len(TargetsUpTo(pfx_i - 1))
    /\ \A i \in 1..Len(SecondRunLog) :
         /\ SecondRunLog[i].description = TargetsUpTo(pfx_i - 1)[i].description
         /\ SecondRunLog[i].host = TargetsUpTo(pfx_i - 1)[i].host_ip
         /\ SecondRunLog[i].plen = TargetsUpTo(pfx_i - 1)[i].parent_plen

\* A finished second run over nested prefixes in which the first run had updated a
\* pre-existing address and created others.
C10_Witness ==
  /\ run_no = 2 /\ apc = "done" /\ Len(qs) = 2
  /\ _to_range(qs[1])[1] <= _to_range(qs[2])[1] /\ _to_range(qs[2])[2] <= _to_range(qs[1])[2]
  /\ qs[1].vrf = qs[2].vrf
  /\ \E i, j \in 1..Len(ip_log) : ip_log[i].op = "Updated" /\ ip_log[j].op = "Created"
  /\ Len(SecondRunLog) >= 2

(***************************************************************************)
(* Claims about vlan_sync.py                                               *)
(***************************************************************************)
\* The switchport state of the device's interface, VLANs as the VIDs they have on
\* the device.
DeviceDesc ==
  IF v_platform = "juniper"
  THEN LET phys == collapse_junos_units(junos_interfaces_from_set(v_units))
       IN [i \in 1..Len(phys) |->
             [mode |-> phys[i].mode, access |-> VidOnDevice(phys[i].access),
              native |-> VidOnDevice(phys[i].native),
              tagged |-> {VidOnDevice(t) : t \in phys[i].tagged} \ {NoVid}]]
  ELSE parse_ios_switchport(v_block)

\* The NetBox state that mirrors a switchport state.
MirrorOf(d) ==
  LET untagged_vid == IF d.mode = "access" THEN d.access ELSE d.native
  IN [mode |-> IF d.mode = "access" THEN "access" ELSE "tagged",
      untagged_vlan |-> IF untagged_vid \in nb_vids THEN NbIdOf(untagged_vid) ELSE NoVid,
      tagged_vlans |-> IF d.mode = "access" THEN {}
                       ELSE {NbIdOf(v) : v \in d.tagged \cap nb_vids}]

\* The loop body ran on an interface that is not ignored and that NetBox holds.
Synced ==
  /\ vpc = "done" /\ sw_i > 1
  /\ ~should_ignore_interface(v_ifname) /\ InNetBox(v_ifname)

\* C11: for an interface found in NetBox and not ignored, what vlan_sync writes has
\* mode access or tagged, the access (access mode) or native (trunk mode) VLAN as
\* untagged_vlan, and exactly the device's trunk VLANs that NetBox holds as
\* tagged_vlans (none in access mode); it writes when NetBox differs, and issues no
\* update when mode, untagged VLAN and tagged set already match.
C11_DesiredState ==
  Synced =>
    LET want == MirrorOf(DeviceDesc[1])
    IN /\ \A i \in 1..Len(update_calls) :
            update_calls[i].mode \in {"access", "tagged"} /\ update_calls[i] = want
       /\ nb_cur0 = want => update_calls = <<>>
       /\ (nb_cur0 # want /\ ~v_dry_run) => Len(update_calls) = 1

(***************************************************************************)
(* mac_sync.py, main(): claim C12                                          *)
(***************************************************************************)
\* What sync_one returns for device d, and the MAC objects and primary MAC it leaves on
\* the device's interface, when it runs alone from the start state with the gathering
\* outcome it met.
AloneObjs0(d) == rest_list_interface_macs(InitialObjs(p_devices), d)
AloneSummary(d) ==
  IF p_local[d].gathered
  THEN [adds |-> Cardinality(ToAdd(p_devices[d].learned, AloneObjs0(d))),
        removes |-> Cardinality(ToRemove(p_devices[d].learned, AloneObjs0(d))),
        errors |-> 0]
  ELSE [adds |-> 0, removes |-> 0,
        errors |-> p_summary[d].errors]
Untouched(d) ==
  /\ rest_list_interface_macs(p_objs, d) = AloneObjs0(d)
  /\ p_primary[d] = InitialPrimary(p_devices, InitialObjs(p_devices))[d]

\* C12: main() submits sync_one once for each device, at most WORKERS calls run at a
\* time, a call changes nothing on the interface of a device before that device's own
\* call works on it, every finished call returns the adds, removes and errors of the
\* device run alone and leaves exactly the learned MACs on its interface, and the logged
\* TOTAL is the sum of the summaries of all devices.
C12_IndependentRuns ==
  /\ \A d \in PoolDevices :
       /\ p_submits[d] <= 1
       /\ p_main # "submit" => p_submits[d] = 1
       /\ p_pc[d] \in {"new", "queued", "gather", "fetch", "list"} => Untouched(d)
       /\ (p_pc[d] = "done" /\ ~p_local[d].gathered) => Untouched(d)
       /\ p_pc[d] = "done" => p_summary[d] = AloneSummary(d)
       /\ (p_pc[d] = "done" /\ p_local[d].gathered) =>
            /\ {o.mac_address : o \in rest_list_interface_macs(p_objs, d)} = p_devices[d].learned
            /\ Cardinality(rest_list_interface_macs(p_objs, d)) = Cardinality(p_devices[d].learned)
  /\ Cardinality(Running) <= WORKERS
  /\ p_total.logged =>
       /\ Range(summaries) = PoolDevices
       /\ p_total.adds = SumOver([d \in PoolDevices |-> d], "adds")
       /\ p_total.removes = SumOver([d \in PoolDevices |-> d], "removes")
       /\ p_total.errors = SumOver([d \in PoolDevices |-> d], "errors")

\* More devices than workers were synchronised, the results arrived out of submission
\* order, and the logged TOTAL counts adds, removes and errors.
C12_Witness ==
  /\ p_total.logged
  /\ Len(p_devices) > WORKERS
  /\ summaries[1] # 1
  /\ p_total.adds > 0 /\ p_total.removes > 0 /\ p_total.errors > 0
  /\ \E d \in PoolDevices : p_summary[d].adds > 0 /\ p_summary[d].removes > 0

(***************************************************************************)
(* with_retries: claim C13                                                 *)
(***************************************************************************)
FnCalls == SelectSeq(r_trace, LAMBDA ev : ev.op = "fn")

\* C13: fn is called at most `attempts` times, one call after the other; every call but
\* the last one raised an Exception and is followed by one sleep of wait_s and then by the
\* next call, and nothing else sleeps; with_retries returns only the value of a call that
\* returned, which is then the last call; and after `attempts` failed calls it raises
\* the exception of the last one.
C13_Retries ==
  /\ Len(FnCalls) <= attempts
  /\ \A k \in 1..Len(r_trace) :
       /\ r_trace[k].op = (IF k % 2 = 1 THEN "fn" ELSE "sleep")
       /\ r_trace[k].op = "sleep" => r_trace[k].s = wait_s
       /\ (r_trace[k].op = "fn" /\ k < Len(r_trace)) => r_trace[k].kind = "exception"
  /\ (r_trace # <<>> /\ r_trace[Len(r_trace)].op = "sleep") => (r_pc = "loop" /\ r_i <= attempts)
  /\ (r_trace # <<>> /\ r_trace[Len(r_trace)].kind = "return") =>
       (r_pc = "returned" /\ r_result = r_trace[Len(r_trace)].what)
  /\ r_pc = "returned" =>
       (r_trace # <<>> /\ r_trace[Len(r_trace)].kind = "return" /\ r_raised = None)
  /\ r_pc # "returned" => r_result = None
  /\ (Len(FnCalls) = attempts /\ attempts > 0 /\ r_trace[Len(r_trace)].kind = "exception") =>
       (r_pc = "raised" /\ r_raised = r_trace[Len(r_trace)].what)
  /\ (r_pc = "raised" /\ r_trace # <<>>) => r_raised = r_trace[Len(r_trace)].what

\* Two calls failed with different exceptions, each followed by a sleep, and the third
\* and last attempt failed too: its exception is raised.
C13_Witness ==
  /\ attempts >= 3
  /\ Len(FnCalls) = attempts
  /\ r_pc = "raised"
  /\ FnCalls[1].what # FnCalls[Len(FnCalls)].what
  /\ r_raised = FnCalls[Len(FnCalls)].what
  /\ wait_s > 0

====
